---------------------------- MODULE Spec2Model ----------------------------
(*
  Model of the MCP JSON-RPC server of text-to-sql
  (src/src/mcp_server.py) and of its free-form query tool
  (src/src/tools/neo4j_query_tool.py).

  Python str values are modelled as sequences of one-character strings, so
  that substring tests, prefix tests, comment stripping and message
  formatting are computed the way the code computes them.
*)
EXTENDS Integers, Sequences, FiniteSets, TLC

\* F applied to the value of v, v evaluated once (a local variable assignment)
Bind(v, F(_)) == CHOOSE out \in {F(x) : x \in {v}} : TRUE

---------------------------------------------------------------------------
(* Python str primitives *)

\* str.isspace() for the ASCII whitespace the inputs use; used by str.split() and str.strip().
Whitespace == {" ", "\t", "\n", "\r"}

LowerLetters == <<"a","b","c","d","e","f","g","h","i","j","k","l","m","n","o","p","q","r","s","t","u","v","w","x","y","z">>

UpperLetters == <<"A","B","C","D","E","F","G","H","I","J","K","L","M","N","O","P","Q","R","S","T","U","V","W","X","Y","Z">>

\* one character of str.upper()
UpperChar(c) ==
    IF \E i \in 1..26 : LowerLetters[i] = c
    THEN UpperLetters[CHOOSE i \in 1..26 : LowerLetters[i] = c]
    ELSE c

\* str.upper()
Upper(s) == [i \in 1..Len(s) |-> UpperChar(s[i])]

\* s.startswith(p)
StartsWith(s, p) ==
    /\ Len(p) <= Len(s)
    /\ \A i \in 1..Len(p) : s[i] = p[i]

\* p occurs in s at index i
OccursAt(s, p, i) ==
    /\ i >= 1
    /\ i + Len(p) - 1 <= Len(s)
    /\ \A k \in 1..Len(p) : s[i + k - 1] = p[k]

\* Python's  p in s
Contains(s, p) == \E i \in 1..(Len(s) - Len(p) + 1) : OccursAt(s, p, i)

\* str.lstrip()
RECURSIVE LStrip(_)
LStrip(s) ==
    IF s # <<>> /\ s[1] \in Whitespace THEN LStrip(Tail(s)) ELSE s

\* str.rstrip()
RECURSIVE RStrip(_)
RStrip(s) ==
    IF s # <<>> /\ s[Len(s)] \in Whitespace
    THEN RStrip(SubSeq(s, 1, Len(s) - 1))
    ELSE s

\* str.strip()
Strip(s) == RStrip(LStrip(s))

\* str.rstrip(';')
RECURSIVE RStripSemicolon(_)
RStripSemicolon(s) ==
    IF s # <<>> /\ s[Len(s)] = ";"
    THEN RStripSemicolon(SubSeq(s, 1, Len(s) - 1))
    ELSE s

\* what ' '.join(s.split()) makes of the character at index i: itself when it is
\* no white space, one space for a white space run between two words, else nothing
JoinSplitAt(s, i) ==
    IF s[i] \notin Whitespace THEN s[i]
    ELSE IF /\ i > 1
            /\ s[i - 1] \notin Whitespace
            /\ \E j \in (i + 1)..Len(s) : s[j] \notin Whitespace
    THEN " "
    ELSE ""

\* ' '.join(s.split()): whitespace runs become one space, none at either end
JoinSplit(s) ==
    SelectSeq([i \in 1..Len(s) |-> JoinSplitAt(s, i)], LAMBDA c : c # "")

\* str(n) for an integer n
RECURSIVE DigitsOf(_)
DigitsOf(n) ==
    LET d == <<"0","1","2","3","4","5","6","7","8","9">>[(n % 10) + 1]
    IN  IF n < 10 THEN <<d>> ELSE DigitsOf(n \div 10) \o <<d>>

IntToStr(n) == IF n < 0 THEN <<"-">> \o DigitsOf(-n) ELSE DigitsOf(n)

---------------------------------------------------------------------------
(* Neo4jQueryTool._validate_query *)

\* the index of the first "\n" at or after index i, 0 when there is none
FirstNewline(s, i) ==
    IF \E j \in i..Len(s) : s[j] = "\n"
    THEN CHOOSE j \in i..Len(s) : s[j] = "\n" /\ \A k \in i..(j - 1) : s[k] # "\n"
    ELSE 0

\* the index of the first "*/" at or after index i, 0 when there is none
FirstBlockEnd(s, i) ==
    IF \E j \in i..(Len(s) - 1) : s[j] = "*" /\ s[j + 1] = "/"
    THEN CHOOSE j \in i..(Len(s) - 1) :
            /\ s[j] = "*" /\ s[j + 1] = "/"
            /\ \A k \in i..(j - 1) : ~(s[k] = "*" /\ s[k + 1] = "/")
    ELSE 0

\* re.sub(r'//.*?\n|/\*.*?\*/', '', query, flags=re.DOTALL), scanning from index i:
\* at each index the leftmost alternative that matches is removed, lazily up to
\* its first terminator; "//" with no later newline and "/*" with no later "*/"
\* do not match and stay in the text.
\* The scan at index i, from being the index it resumes at (the end of the last
\* match): the next index to resume at, and the text kept.
StripCommentsAt(s, i, from) ==
    IF i < from THEN [from |-> from, out |-> <<>>]
    ELSE IF OccursAt(s, <<"/", "/">>, i) /\ FirstNewline(s, i + 2) # 0
         THEN [from |-> FirstNewline(s, i + 2) + 1, out |-> <<>>]
    ELSE IF OccursAt(s, <<"/", "*">>, i) /\ FirstBlockEnd(s, i + 2) # 0
         THEN [from |-> FirstBlockEnd(s, i + 2) + 2, out |-> <<>>]
    ELSE [from |-> i + 1, out |-> <<s[i]>>]

\* the scan over the indices lo..hi, by halves
RECURSIVE StripCommentsFrom(_, _, _, _)
StripCommentsFrom(s, lo, hi, from) ==
    IF lo = hi THEN StripCommentsAt(s, lo, from)
    ELSE Bind(StripCommentsFrom(s, lo, (lo + hi) \div 2, from), LAMBDA left :
         Bind(StripCommentsFrom(s, (lo + hi) \div 2 + 1, hi, left.from), LAMBDA right :
            [from |-> right.from, out |-> left.out \o right.out]))

StripComments(s) ==
    IF s = <<>> THEN <<>> ELSE StripCommentsFrom(s, 1, Len(s), 1).out

\* clean_query of _validate_query
CleanQuery(query) == Upper(JoinSplit(StripComments(query)))

dangerous_keywords == <<
    <<"C","R","E","A","T","E">>,
    <<"D","E","L","E","T","E">>,
    <<"D","E","T","A","C","H"," ","D","E","L","E","T","E">>,
    <<"R","E","M","O","V","E">>,
    <<"S","E","T">>,
    <<"M","E","R","G","E">>,
    <<"D","R","O","P">>,
    <<"A","L","T","E","R">>,
    <<"C","A","L","L">>,
    <<"L","O","A","D"," ","C","S","V">>,
    <<"I","M","P","O","R","T">>,
    <<"E","X","P","O","R","T">>,
    <<"A","D","M","I","N">>,
    <<"D","B","M","S">>,
    <<"T","E","R","M","I","N","A","T","E">>,
    <<"K","I","L","L">> >>

\* an allow-list that lacks PROFILE
allowed_starts_short == <<
    <<"M","A","T","C","H">>,
    <<"R","E","T","U","R","N">>,
    <<"S","H","O","W">>,
    <<"E","X","P","L","A","I","N">>,
    <<"W","I","T","H">>,
    <<"U","N","W","I","N","D">>,
    <<"O","P","T","I","O","N","A","L"," ","M","A","T","C","H">> >>

allowed_starts == <<
    <<"M","A","T","C","H">>,
    <<"R","E","T","U","R","N">>,
    <<"S","H","O","W">>,
    <<"E","X","P","L","A","I","N">>,
    <<"P","R","O","F","I","L","E">>,
    <<"W","I","T","H">>,
    <<"U","N","W","I","N","D">>,
    <<"O","P","T","I","O","N","A","L"," ","M","A","T","C","H">> >>

\* a gate that looks for a keyword only at the start of the text
FirstDangerous_leading(clean) ==
    IF \E k \in 1..Len(dangerous_keywords) : StartsWith(clean, dangerous_keywords[k])
    THEN CHOOSE k \in 1..Len(dangerous_keywords) :
            /\ StartsWith(clean, dangerous_keywords[k])
            /\ \A j \in 1..(k - 1) : ~StartsWith(clean, dangerous_keywords[j])
    ELSE 0

\* the first keyword of the list, in list order, that occurs in clean (0: none)
FirstDangerous(clean) ==
    IF \E k \in 1..Len(dangerous_keywords) : Contains(clean, dangerous_keywords[k])
    THEN CHOOSE k \in 1..Len(dangerous_keywords) :
            /\ Contains(clean, dangerous_keywords[k])
            /\ \A j \in 1..(k - 1) : ~Contains(clean, dangerous_keywords[j])
    ELSE 0

DangerousMessage(keyword) ==
    <<"Q","u","e","r","y"," ","c","o","n","t","a","i","n","s"," ","d","a","n","g","e","r","o","u","s"," ","k","e","y","w","o","r","d",":"," ">> \o keyword
        \o <<"."," ","O","n","l","y"," ","r","e","a","d","-","o","n","l","y"," ","q","u","e","r","i","e","s"," ","a","r","e"," ","a","l","l","o","w","e","d",".">>

StartMessage == <<"Q","u","e","r","y"," ","m","u","s","t"," ","s","t","a","r","t"," ","w","i","t","h"," ","a"," ","r","e","a","d","-","o","n","l","y"," ","o","p","e","r","a","t","i","o","n"," ","(","M","A","T","C","H",","," ","R","E","T","U","R","N",","," ","S","H","O","W",","," ","e","t","c",".",")">>

\* a gate without the allowed-start check
ValidateQuery_no_start(query) ==
    Bind(CleanQuery(query), LAMBDA clean :
    Bind(FirstDangerous(clean), LAMBDA k :
        IF k # 0
        THEN [ok |-> FALSE, exc |-> "ValueError", msg |-> DangerousMessage(dangerous_keywords[k])]
        ELSE [ok |-> TRUE]))

\* _validate_query(query): [ok |-> TRUE] when it returns, the ValueError it raises otherwise
ValidateQuery(query) ==
    Bind(CleanQuery(query), LAMBDA clean :
    Bind(FirstDangerous(clean), LAMBDA k :
        IF k # 0
        THEN [ok |-> FALSE, exc |-> "ValueError", msg |-> DangerousMessage(dangerous_keywords[k])]
        ELSE IF ~ \E a \in 1..Len(allowed_starts) : StartsWith(clean, allowed_starts[a])
        THEN [ok |-> FALSE, exc |-> "ValueError", msg |-> StartMessage]
        ELSE [ok |-> TRUE]))

---------------------------------------------------------------------------
(* Python and JSON values *)

\* None (and JSON null)
None == [t |-> "null"]

JStr(s) == [t |-> "str", s |-> s]

JInt(n) == [t |-> "int", i |-> n]

JBool(b) == [t |-> "bool", b |-> b]

\* a dict: m is a function from its keys to its values
JMap(m) == [t |-> "map", m |-> m]

\* a list
JList(l) == [t |-> "list", l |-> l]

\* the empty dict {}
EmptyMap == JMap(<<>>)

\* key in d, for a dict d
HasKey(d, key) == key \in DOMAIN d.m

\* d.get(key, default), for a dict d
Get(d, key, default) == IF HasKey(d, key) THEN d.m[key] ELSE default

\* bool(v): None, 0, False, "", {} and [] are falsy
Truthy(v) ==
    CASE v.t = "null" -> FALSE
      [] v.t = "int"  -> v.i # 0
      [] v.t = "bool" -> v.b
      [] v.t = "str"  -> v.s # <<>>
      [] v.t = "map"  -> DOMAIN v.m # {}
      [] v.t = "list" -> v.l # <<>>

\* isinstance(v, int): bool is a subclass of int
IsInstanceInt(v) == v.t \in {"int", "bool"}

\* the number an int or bool compares as
IntValue(v) == IF v.t = "bool" THEN (IF v.b THEN 1 ELSE 0) ELSE v.i

\* str(v) for an int or a bool, as an f-string formats it
FormatInt(v) ==
    IF v.t = "bool" THEN (IF v.b THEN <<"T","r","u","e">> ELSE <<"F","a","l","s","e">>)
    ELSE IntToStr(v.i)

\* a raised exception: its class and str(e); events is what happened before it
Raise(exc, msg, events) == [ok |-> FALSE, exc |-> exc, msg |-> msg, events |-> events]

\* a returned value; events is what happened during the call
Return(value, events) == [ok |-> TRUE, value |-> value, events |-> events]

---------------------------------------------------------------------------
(* The store behind the driver.  What it parses: Cypher's own comments.  A "//" or "/*" inside a
   string literal starts no comment, a "//" comment
   ends at the end of the line or of the text, and a comment separates tokens
   like white space. *)

\* The scan of s at index i.  st.mode is "code", "line" or "block" (inside a
\* comment), or the quote character of the literal the scan is inside; st.from is
\* the index the scan resumes at.  A comment is replaced by a space.
CypherStep(s, i, st) ==
    IF i < st.from THEN [st |-> st, out |-> <<>>]
    ELSE IF st.mode = "code"
    THEN IF s[i] \in {"\"", "'"}
         THEN [st |-> [mode |-> s[i], from |-> i + 1], out |-> <<s[i]>>]
         ELSE IF OccursAt(s, <<"/", "/">>, i)
         THEN [st |-> [mode |-> "line", from |-> i + 2], out |-> <<" ">>]
         ELSE IF OccursAt(s, <<"/", "*">>, i)
         THEN [st |-> [mode |-> "block", from |-> i + 2], out |-> <<" ">>]
         ELSE [st |-> [mode |-> "code", from |-> i + 1], out |-> <<s[i]>>]
    ELSE IF st.mode = "line"
    THEN IF s[i] = "\n"
         THEN [st |-> [mode |-> "code", from |-> i + 1], out |-> <<"\n">>]
         ELSE [st |-> [mode |-> "line", from |-> i + 1], out |-> <<>>]
    ELSE IF st.mode = "block"
    THEN IF OccursAt(s, <<"*", "/">>, i)
         THEN [st |-> [mode |-> "code", from |-> i + 2], out |-> <<>>]
         ELSE [st |-> [mode |-> "block", from |-> i + 1], out |-> <<>>]
    ELSE IF s[i] = "\\" /\ i < Len(s)
    THEN [st |-> [mode |-> st.mode, from |-> i + 2], out |-> <<s[i], s[i + 1]>>]
    ELSE IF s[i] = st.mode
    THEN [st |-> [mode |-> "code", from |-> i + 1], out |-> <<s[i]>>]
    ELSE [st |-> [mode |-> st.mode, from |-> i + 1], out |-> <<s[i]>>]

\* the scan over the indices lo..hi, by halves
RECURSIVE CypherScanRange(_, _, _, _)
CypherScanRange(s, lo, hi, st) ==
    IF lo = hi THEN CypherStep(s, lo, st)
    ELSE Bind(CypherScanRange(s, lo, (lo + hi) \div 2, st), LAMBDA left :
         Bind(CypherScanRange(s, (lo + hi) \div 2 + 1, hi, left.st), LAMBDA right :
            [st |-> right.st, out |-> left.out \o right.out]))

\* text with its comments replaced by a space
CypherScan(s) ==
    IF s = <<>> THEN <<>>
    ELSE CypherScanRange(s, 1, Len(s), [mode |-> "code", from |-> 1]).out

\* the statement the store sees in text, white space collapsed and uppercased
CypherStatement(text) == Upper(JoinSplit(CypherScan(text)))

\* the index of the last space of s, or 0
LastSpace(s) ==
    IF \E i \in 1..Len(s) : s[i] = " "
    THEN CHOOSE i \in 1..Len(s) : s[i] = " " /\ \A j \in (i + 1)..Len(s) : s[j] # " "
    ELSE 0

Digits == <<"0","1","2","3","4","5","6","7","8","9">>

\* the number a string of digits denotes
RECURSIVE ParseInt(_)
ParseInt(s) ==
    IF s = <<>> THEN 0
    ELSE 10 * ParseInt(SubSeq(s, 1, Len(s) - 1))
         + (CHOOSE d \in 0..9 : Digits[d + 1] = s[Len(s)])

\* the cap the statement in text ends with: [some, n] for a final LIMIT n, n = -1
\* when what follows LIMIT is no number (the store rejects the statement)
StatementCap(text) ==
    Bind(RStrip(RStripSemicolon(CypherStatement(text))), LAMBDA stmt :
    Bind(LastSpace(stmt), LAMBDA sp :
        IF sp = 0 \/ sp = Len(stmt) THEN [some |-> FALSE, n |-> 0]
        ELSE IF ~(\/ SubSeq(stmt, 1, sp - 1) = <<"L","I","M","I","T">>
                  \/ (sp > 6 /\ SubSeq(stmt, sp - 6, sp - 1) = <<" ","L","I","M","I","T">>))
        THEN [some |-> FALSE, n |-> 0]
        ELSE IF \A i \in (sp + 1)..Len(stmt) : \E d \in 1..10 : Digits[d] = stmt[i]
        THEN [some |-> TRUE, n |-> ParseInt(SubSeq(stmt, sp + 1, Len(stmt)))]
        ELSE [some |-> TRUE, n |-> -1]))

\* how the store answers text when the driver's outcome is given and the
\* statement matches rows records: it rejects a malformed cap and returns no more
\* records than the statement's cap
StoreAnswer(text, outcome, rows) ==
    Bind(StatementCap(text), LAMBDA cap :
        IF outcome # "ok" \/ (cap.some /\ cap.n < 0) THEN [ok |-> FALSE, n |-> 0]
        ELSE IF cap.some /\ cap.n < rows THEN [ok |-> TRUE, n |-> cap.n]
        ELSE [ok |-> TRUE, n |-> rows])

---------------------------------------------------------------------------
(* the graph driver: an external collaborator.  One outcome per session.run
   of a tool call: main for the caller's query, plan for its EXPLAIN variant;
   rows is the number of records the caller's statement matches in the store
   (a query of the schema tool returns that many); seq holds the outcomes of the
   successive queries of a schema tool call. *)

MaxRows == 2

\* the outcomes of the successive queries of one Neo4jSchemaTool call
MaxQueries == 4

AllSucceed == [i \in 1..MaxQueries |-> "ok"]

DriverOutcomes ==
    [main : {"ok", "fail"}, plan : {"ok", "fail"}, rows : 0..MaxRows,
     seq : [1..MaxQueries -> {"ok", "fail"}]]

\* str(e) of the error the driver raises
DriverErrorText == <<"S","e","r","v","i","c","e","U","n","a","v","a","i","l","a","b","l","e">>

\* [record.data() for record in result]
Records(n) == [i \in 1..n |-> [row |-> i]]

---------------------------------------------------------------------------
(* Neo4jQueryTool *)

NotConnectedMessage == <<"N","o","t"," ","c","o","n","n","e","c","t","e","d"," ","t","o"," ","N","e","o","4","j"," ","d","a","t","a","b","a","s","e","."," ","C","h","e","c","k"," ","i","f"," ","N","e","o","4","j"," ","i","s"," ","r","u","n","n","i","n","g"," ","a","n","d"," ","c","r","e","d","e","n","t","i","a","l","s"," ","a","r","e"," ","c","o","r","r","e","c","t",".">>

QueryFailedPrefix == <<"Q","u","e","r","y"," ","e","x","e","c","u","t","i","o","n"," ","f","a","i","l","e","d",":"," ">>

\* a session block that releases the session only when session.run returned
WithSession_leak(text, outcome) ==
    << [e |-> "session_open"], [e |-> "run", text |-> text] >>
    \o (IF outcome = "ok" THEN << [e |-> "session_close"] >> ELSE <<>>)

\* a session block that sends the statement a second time when the first run fails
WithSession_retry(text, outcome) ==
    << [e |-> "session_open"], [e |-> "run", text |-> text] >>
    \o (IF outcome = "ok" THEN <<>> ELSE << [e |-> "run", text |-> text] >>)
    \o << [e |-> "session_close"] >>

\* with self.driver.session() as session: session.run(text); the with statement
\* closes the session whether run returned or raised
WithSession(text, outcome) ==
    << [e |-> "session_open"], [e |-> "run", text |-> text], [e |-> "session_close"] >>

\* the query text _execute_query hands to session.run
LimitedQuery(query, limit) ==
    IF Truthy(limit) /\ ~Contains(Upper(query), <<"L","I","M","I","T">>)
    THEN RStripSemicolon(query) \o <<" ","L","I","M","I","T"," ">> \o FormatInt(limit)
    ELSE query

\* an _execute_query that connects on demand when the tool holds no driver
ExecuteQuery_reconnect(self, query, limit, outcome, rows) ==
    Bind(LimitedQuery(query, limit), LAMBDA text :
    Bind(WithSession(text, outcome), LAMBDA ran :
    Bind(StoreAnswer(text, outcome, rows), LAMBDA answer :
        IF answer.ok
        THEN Return(Records(answer.n), ran)
        ELSE Raise("RuntimeError", QueryFailedPrefix \o DriverErrorText, ran))))

\* _execute_query(query, limit), the driver answering with outcome
ExecuteQuery(self, query, limit, outcome, rows) ==
    IF ~self.driver
    THEN Raise("RuntimeError", NotConnectedMessage, <<>>)
    ELSE Bind(LimitedQuery(query, limit), LAMBDA text :
         Bind(WithSession(text, outcome), LAMBDA ran :
         Bind(StoreAnswer(text, outcome, rows), LAMBDA answer :
            IF answer.ok
            THEN Return(Records(answer.n), ran)
            ELSE Raise("RuntimeError", QueryFailedPrefix \o DriverErrorText, ran))))

QueryRequiredMessage == <<"c","y","p","h","e","r","_","q","u","e","r","y"," ","p","a","r","a","m","e","t","e","r"," ","i","s"," ","r","e","q","u","i","r","e","d">>

LimitMessage == <<"l","i","m","i","t"," ","m","u","s","t"," ","b","e"," ","a"," ","p","o","s","i","t","i","v","e"," ","i","n","t","e","g","e","r"," ","b","e","t","w","e","e","n"," ","1"," ","a","n","d"," ","1","0","0","0">>

ExplainPrefix == <<"E","X","P","L","A","I","N"," ">>

QueryGuidance ==
    [use_case |-> "Explore PostgreSQL schema to generate SQL queries",
     entity_types |-> "Table, Column, Constraint, Index",
     relationships |-> "HAS_COLUMN, REFERENCES (FK), HAS_CONSTRAINT, HAS_INDEX, INDEXES",
     sql_generation_tip |-> "Use table_name and column info to build SELECT, JOIN, WHERE clauses"]

\* a response dict that echoes the statement as it was sent, cap included
QueryResponse_sent_text(cypher_query, results) ==
    [database_type |-> "PostgreSQL",
     storage_type |-> "Neo4j",
     purpose |-> "PostgreSQL schema exploration for SQL generation",
     query |-> LimitedQuery(cypher_query, JInt(100)),
     result_count |-> Len(results),
     results |-> results,
     guidance |-> QueryGuidance]

\* the response dict of execute, before the query plan is attached
QueryResponse(cypher_query, results) ==
    [database_type |-> "PostgreSQL",
     storage_type |-> "Neo4j",
     purpose |-> "PostgreSQL schema exploration for SQL generation",
     query |-> cypher_query,
     result_count |-> Len(results),
     results |-> results,
     guidance |-> QueryGuidance]

\* a query plan part that lets the failure of the EXPLAIN variant fail the call
QueryToolPlan_fatal(self, cypher_query, drv, response, ran) ==
    Bind(ExecuteQuery(self, ExplainPrefix \o cypher_query, None, drv.plan, 1), LAMBDA plan :
        IF plan.ok
        THEN Return(response @@ [query_plan |-> plan.value], ran \o plan.events)
        ELSE Raise("ValueError", QueryFailedPrefix \o plan.msg, ran \o plan.events))

\* the query plan part of execute: response with the plan, or the soft error, attached
QueryToolPlan(self, cypher_query, drv, response, ran) ==
    Bind(ExecuteQuery(self, ExplainPrefix \o cypher_query, None, drv.plan, 1), LAMBDA plan :
        IF plan.ok
        THEN Return(response @@ [query_plan |-> plan.value], ran \o plan.events)
        ELSE Return(response @@ [query_plan_error |-> plan.msg], ran \o plan.events))

\* a try block that looks at the connection before it consults the gate
QueryToolTry_connection_first(self, cypher_query, limit, include_query_plan, drv) ==
    IF ~self.driver
    THEN Raise("ValueError", QueryFailedPrefix \o NotConnectedMessage, <<>>)
    ELSE
    Bind(ValidateQuery(cypher_query), LAMBDA valid :
    Bind(<< [e |-> "validate", text |-> cypher_query] >>, LAMBDA gate :
        IF ~valid.ok
        THEN Raise("ValueError", QueryFailedPrefix \o valid.msg, gate)
        ELSE
        Bind(ExecuteQuery(self, cypher_query, limit, drv.main, drv.rows), LAMBDA main :
        IF ~main.ok
        THEN Raise("ValueError", QueryFailedPrefix \o main.msg, gate \o main.events)
        ELSE IF ~include_query_plan
        THEN Return(QueryResponse(cypher_query, main.value), gate \o main.events)
        ELSE QueryToolPlan(self, cypher_query, drv,
                           QueryResponse(cypher_query, main.value), gate \o main.events))))

\* the part of execute inside its try block, for a validated limit
QueryToolTry(self, cypher_query, limit, include_query_plan, drv) ==
    Bind(ValidateQuery(cypher_query), LAMBDA valid :
    Bind(<< [e |-> "validate", text |-> cypher_query] >>, LAMBDA gate :
        IF ~valid.ok
        THEN Raise("ValueError", QueryFailedPrefix \o valid.msg, gate)
        ELSE
        Bind(ExecuteQuery(self, cypher_query, limit, drv.main, drv.rows), LAMBDA main :
        IF ~main.ok
        THEN Raise("ValueError", QueryFailedPrefix \o main.msg, gate \o main.events)
        ELSE IF ~include_query_plan
        THEN Return(QueryResponse(cypher_query, main.value), gate \o main.events)
        ELSE QueryToolPlan(self, cypher_query, drv,
                           QueryResponse(cypher_query, main.value), gate \o main.events))))

\* Neo4jQueryTool.execute(params), params a dict
QueryToolExecute(self, params, drv) ==
    Bind(Strip(Get(params, "cypher_query", JStr(<<>>)).s), LAMBDA cypher_query :
    Bind(Get(params, "limit", JInt(100)), LAMBDA limit :
    Bind(Truthy(Get(params, "include_query_plan", JBool(FALSE))), LAMBDA include_query_plan :
        IF cypher_query = <<>>
        THEN Raise("ValueError", QueryRequiredMessage, <<>>)
        ELSE IF Truthy(limit) /\ (\/ ~IsInstanceInt(limit)
                                  \/ IntValue(limit) <= 0
                                  \/ IntValue(limit) > 1000)
        THEN Raise("ValueError", LimitMessage, <<>>)
        ELSE QueryToolTry(self, cypher_query, limit, include_query_plan, drv))))

---------------------------------------------------------------------------
(* Neo4jSchemaTool *)

LowerChar(c) ==
    IF \E i \in 1..26 : UpperLetters[i] = c
    THEN LowerLetters[CHOOSE i \in 1..26 : UpperLetters[i] = c]
    ELSE c

\* str.lower()
Lower(s) == [i \in 1..Len(s) |-> LowerChar(s[i])]

\* the index of the first occurrence of the character c in s from i on, or 0
FindChar(s, c, i) ==
    IF \E j \in i..Len(s) : s[j] = c
    THEN CHOOSE j \in i..Len(s) : s[j] = c /\ \A k \in i..(j - 1) : s[k] # c
    ELSE 0

\* key.split('_')[0]
SplitFirst(s, c) ==
    IF FindChar(s, c, 1) = 0 THEN s ELSE SubSeq(s, 1, FindChar(s, c, 1) - 1)

\* str(v) as an f-string formats a parameter value
Format(v) ==
    CASE v.t = "str"  -> v.s
      [] v.t = "null" -> <<"N","o","n","e">>
      [] OTHER        -> FormatInt(v)

\* _get_node_labels: apoc_query
nodes_apoc_query == <<"\n"," "," "," "," "," "," "," "," ","C","A","L","L"," ","d","b",".","l","a","b","e","l","s","(",")"," ","Y","I","E","L","D"," ","l","a","b","e","l","\n"," "," "," "," "," "," "," "," ","C","A","L","L"," ","{","\n"," "," "," "," "," "," "," "," "," "," "," "," ","W","I","T","H"," ","l","a","b","e","l","\n"," "," "," "," "," "," "," "," "," "," "," "," ","C","A","L","L"," ","a","p","o","c",".","c","y","p","h","e","r",".","r","u","n","(","'","M","A","T","C","H"," ","(","n",":","'"," ","+"," ","l","a","b","e","l"," ","+"," ","'",")"," ","R","E","T","U","R","N"," ","c","o","u","n","t","(","n",")"," ","a","s"," ","c","o","u","n","t","'",","," ","{","}",")"," ","\n"," "," "," "," "," "," "," "," "," "," "," "," ","Y","I","E","L","D"," ","v","a","l","u","e","\n"," "," "," "," "," "," "," "," "," "," "," "," ","R","E","T","U","R","N"," ","v","a","l","u","e",".","c","o","u","n","t"," ","a","s"," ","c","o","u","n","t","\n"," "," "," "," "," "," "," "," ","}","\n"," "," "," "," "," "," "," "," ","R","E","T","U","R","N"," ","l","a","b","e","l",","," ","c","o","u","n","t","\n"," "," "," "," "," "," "," "," ","O","R","D","E","R"," ","B","Y"," ","c","o","u","n","t"," ","D","E","S","C","\n"," "," "," "," "," "," "," "," ">>

\* _get_node_labels: fallback_query
nodes_fallback_query == <<"\n"," "," "," "," "," "," "," "," ","C","A","L","L"," ","d","b",".","l","a","b","e","l","s","(",")"," ","Y","I","E","L","D"," ","l","a","b","e","l","\n"," "," "," "," "," "," "," "," ","C","A","L","L"," ","{","\n"," "," "," "," "," "," "," "," "," "," "," "," ","W","I","T","H"," ","l","a","b","e","l","\n"," "," "," "," "," "," "," "," "," "," "," "," ","M","A","T","C","H"," ","(","n",")"," ","W","H","E","R","E"," ","l","a","b","e","l"," ","I","N"," ","l","a","b","e","l","s","(","n",")","\n"," "," "," "," "," "," "," "," "," "," "," "," ","R","E","T","U","R","N"," ","c","o","u","n","t","(","n",")"," ","a","s"," ","c","o","u","n","t","\n"," "," "," "," "," "," "," "," ","}","\n"," "," "," "," "," "," "," "," ","R","E","T","U","R","N"," ","l","a","b","e","l",","," ","c","o","u","n","t","\n"," "," "," "," "," "," "," "," ","O","R","D","E","R"," ","B","Y"," ","c","o","u","n","t"," ","D","E","S","C","\n"," "," "," "," "," "," "," "," ">>

\* _get_node_labels: simple_query
nodes_simple_query == <<"\n"," "," "," "," "," "," "," "," ","C","A","L","L"," ","d","b",".","l","a","b","e","l","s","(",")"," ","Y","I","E","L","D"," ","l","a","b","e","l","\n"," "," "," "," "," "," "," "," ","R","E","T","U","R","N"," ","l","a","b","e","l",","," ","0"," ","a","s"," ","c","o","u","n","t","\n"," "," "," "," "," "," "," "," ","O","R","D","E","R"," ","B","Y"," ","l","a","b","e","l","\n"," "," "," "," "," "," "," "," ">>

\* _get_relationship_types: apoc_query
relationships_apoc_query == <<"\n"," "," "," "," "," "," "," "," ","C","A","L","L"," ","d","b",".","r","e","l","a","t","i","o","n","s","h","i","p","T","y","p","e","s","(",")"," ","Y","I","E","L","D"," ","r","e","l","a","t","i","o","n","s","h","i","p","T","y","p","e","\n"," "," "," "," "," "," "," "," ","C","A","L","L"," ","{","\n"," "," "," "," "," "," "," "," "," "," "," "," ","W","I","T","H"," ","r","e","l","a","t","i","o","n","s","h","i","p","T","y","p","e","\n"," "," "," "," "," "," "," "," "," "," "," "," ","C","A","L","L"," ","a","p","o","c",".","c","y","p","h","e","r",".","r","u","n","(","'","M","A","T","C","H"," ","(",")","-","[","r",":","'"," ","+"," ","r","e","l","a","t","i","o","n","s","h","i","p","T","y","p","e"," ","+"," ","'","]","-",">","(",")"," ","R","E","T","U","R","N"," ","c","o","u","n","t","(","r",")"," ","a","s"," ","c","o","u","n","t","'",","," ","{","}",")"," ","\n"," "," "," "," "," "," "," "," "," "," "," "," ","Y","I","E","L","D"," ","v","a","l","u","e","\n"," "," "," "," "," "," "," "," "," "," "," "," ","R","E","T","U","R","N"," ","v","a","l","u","e",".","c","o","u","n","t"," ","a","s"," ","c","o","u","n","t","\n"," "," "," "," "," "," "," "," ","}","\n"," "," "," "," "," "," "," "," ","R","E","T","U","R","N"," ","r","e","l","a","t","i","o","n","s","h","i","p","T","y","p","e",","," ","c","o","u","n","t","\n"," "," "," "," "," "," "," "," ","O","R","D","E","R"," ","B","Y"," ","c","o","u","n","t"," ","D","E","S","C","\n"," "," "," "," "," "," "," "," ">>

\* _get_relationship_types: fallback_query
relationships_fallback_query == <<"\n"," "," "," "," "," "," "," "," ","C","A","L","L"," ","d","b",".","r","e","l","a","t","i","o","n","s","h","i","p","T","y","p","e","s","(",")"," ","Y","I","E","L","D"," ","r","e","l","a","t","i","o","n","s","h","i","p","T","y","p","e","\n"," "," "," "," "," "," "," "," ","C","A","L","L"," ","{","\n"," "," "," "," "," "," "," "," "," "," "," "," ","W","I","T","H"," ","r","e","l","a","t","i","o","n","s","h","i","p","T","y","p","e","\n"," "," "," "," "," "," "," "," "," "," "," "," ","M","A","T","C","H"," ","(",")","-","[","r","]","-",">","(",")"," ","W","H","E","R","E"," ","t","y","p","e","(","r",")"," ","="," ","r","e","l","a","t","i","o","n","s","h","i","p","T","y","p","e","\n"," "," "," "," "," "," "," "," "," "," "," "," ","R","E","T","U","R","N"," ","c","o","u","n","t","(","r",")"," ","a","s"," ","c","o","u","n","t","\n"," "," "," "," "," "," "," "," ","}","\n"," "," "," "," "," "," "," "," ","R","E","T","U","R","N"," ","r","e","l","a","t","i","o","n","s","h","i","p","T","y","p","e",","," ","c","o","u","n","t","\n"," "," "," "," "," "," "," "," ","O","R","D","E","R"," ","B","Y"," ","c","o","u","n","t"," ","D","E","S","C","\n"," "," "," "," "," "," "," "," ">>

\* _get_relationship_types: simple_query
relationships_simple_query == <<"\n"," "," "," "," "," "," "," "," ","C","A","L","L"," ","d","b",".","r","e","l","a","t","i","o","n","s","h","i","p","T","y","p","e","s","(",")"," ","Y","I","E","L","D"," ","r","e","l","a","t","i","o","n","s","h","i","p","T","y","p","e","\n"," "," "," "," "," "," "," "," ","R","E","T","U","R","N"," ","r","e","l","a","t","i","o","n","s","h","i","p","T","y","p","e",","," ","0"," ","a","s"," ","c","o","u","n","t","\n"," "," "," "," "," "," "," "," ","O","R","D","E","R"," ","B","Y"," ","r","e","l","a","t","i","o","n","s","h","i","p","T","y","p","e","\n"," "," "," "," "," "," "," "," ">>

\* _get_node_properties: apoc_query
properties_apoc_query == <<"\n"," "," "," "," "," "," "," "," "," "," "," "," ","C","A","L","L"," ","d","b",".","l","a","b","e","l","s","(",")"," ","Y","I","E","L","D"," ","l","a","b","e","l","\n"," "," "," "," "," "," "," "," "," "," "," "," ","C","A","L","L"," ","{","\n"," "," "," "," "," "," "," "," "," "," "," "," "," "," "," "," ","W","I","T","H"," ","l","a","b","e","l","\n"," "," "," "," "," "," "," "," "," "," "," "," "," "," "," "," ","C","A","L","L"," ","a","p","o","c",".","c","y","p","h","e","r",".","r","u","n","(","'","M","A","T","C","H"," ","(","n",":","'"," ","+"," ","l","a","b","e","l"," ","+"," ","'",")"," ","W","I","T","H"," ","k","e","y","s","(","n",")"," ","a","s"," ","p","r","o","p","s"," ","U","N","W","I","N","D"," ","p","r","o","p","s"," ","a","s"," ","p","r","o","p"," ","R","E","T","U","R","N"," ","D","I","S","T","I","N","C","T"," ","p","r","o","p"," ","L","I","M","I","T"," ","5","0","'",","," ","{","}",")"," ","\n"," "," "," "," "," "," "," "," "," "," "," "," "," "," "," "," ","Y","I","E","L","D"," ","v","a","l","u","e","\n"," "," "," "," "," "," "," "," "," "," "," "," "," "," "," "," ","R","E","T","U","R","N"," ","v","a","l","u","e",".","p","r","o","p"," ","a","s"," ","p","r","o","p","e","r","t","y","\n"," "," "," "," "," "," "," "," "," "," "," "," ","}","\n"," "," "," "," "," "," "," "," "," "," "," "," ","R","E","T","U","R","N"," ","l","a","b","e","l",","," ","c","o","l","l","e","c","t","(","p","r","o","p","e","r","t","y",")"," ","a","s"," ","p","r","o","p","e","r","t","i","e","s","\n"," "," "," "," "," "," "," "," "," "," "," "," ","O","R","D","E","R"," ","B","Y"," ","l","a","b","e","l","\n"," "," "," "," "," "," "," "," "," "," "," "," ">>

\* _get_node_properties: fallback_query
properties_fallback_query == <<"\n"," "," "," "," "," "," "," "," "," "," "," "," ","C","A","L","L"," ","d","b",".","l","a","b","e","l","s","(",")"," ","Y","I","E","L","D"," ","l","a","b","e","l","\n"," "," "," "," "," "," "," "," "," "," "," "," ","C","A","L","L"," ","{","\n"," "," "," "," "," "," "," "," "," "," "," "," "," "," "," "," ","W","I","T","H"," ","l","a","b","e","l","\n"," "," "," "," "," "," "," "," "," "," "," "," "," "," "," "," ","M","A","T","C","H"," ","(","n",")"," ","W","H","E","R","E"," ","l","a","b","e","l"," ","I","N"," ","l","a","b","e","l","s","(","n",")","\n"," "," "," "," "," "," "," "," "," "," "," "," "," "," "," "," ","W","I","T","H"," ","D","I","S","T","I","N","C","T"," ","k","e","y","s","(","n",")"," ","a","s"," ","p","r","o","p","s","\n"," "," "," "," "," "," "," "," "," "," "," "," "," "," "," "," ","U","N","W","I","N","D"," ","p","r","o","p","s"," ","a","s"," ","p","r","o","p","_","l","i","s","t","\n"," "," "," "," "," "," "," "," "," "," "," "," "," "," "," "," ","U","N","W","I","N","D"," ","p","r","o","p","_","l","i","s","t"," ","a","s"," ","p","r","o","p","\n"," "," "," "," "," "," "," "," "," "," "," "," "," "," "," "," ","R","E","T","U","R","N"," ","D","I","S","T","I","N","C","T"," ","p","r","o","p","\n"," "," "," "," "," "," "," "," "," "," "," "," "," "," "," "," ","L","I","M","I","T"," ","5","0","\n"," "," "," "," "," "," "," "," "," "," "," "," ","}","\n"," "," "," "," "," "," "," "," "," "," "," "," ","R","E","T","U","R","N"," ","l","a","b","e","l",","," ","c","o","l","l","e","c","t","(","p","r","o","p",")"," ","a","s"," ","p","r","o","p","e","r","t","i","e","s","\n"," "," "," "," "," "," "," "," "," "," "," "," ","O","R","D","E","R"," ","B","Y"," ","l","a","b","e","l","\n"," "," "," "," "," "," "," "," "," "," "," "," ">>

\* _get_node_properties: simple_query
properties_simple_query == <<"\n"," "," "," "," "," "," "," "," "," "," "," "," ","C","A","L","L"," ","d","b",".","l","a","b","e","l","s","(",")"," ","Y","I","E","L","D"," ","l","a","b","e","l","\n"," "," "," "," "," "," "," "," "," "," "," "," ","R","E","T","U","R","N"," ","l","a","b","e","l",","," ","[","]"," ","a","s"," ","p","r","o","p","e","r","t","i","e","s","\n"," "," "," "," "," "," "," "," "," "," "," "," ","O","R","D","E","R"," ","B","Y"," ","l","a","b","e","l","\n"," "," "," "," "," "," "," "," "," "," "," "," ">>

\* the queries that list every label or type with a fixed value in place of what
\* the store would count or collect
ZeroFilled == {nodes_simple_query, relationships_simple_query, properties_simple_query}

\* the value the store puts in a column of the i-th record it returns for query
Cell(query, column, i) ==
    IF column = <<"c","o","u","n","t">> THEN (IF query \in ZeroFilled THEN JInt(0) ELSE JInt(i))
    ELSE IF column = <<"p","r","o","p","e","r","t","i","e","s">> /\ query \in ZeroFilled THEN JList(<<>>)
    ELSE IF column \in {<<"l","a","b","e","l","s">>, <<"t","y","p","e","s">>, <<"p","r","o","p","e","r","t","i","e","s">>, <<"f","r","o","m","_","l","a","b","e","l","s">>, <<"t","o","_","l","a","b","e","l","s">>}
    THEN JList(<<JStr(<<"T","a","b","l","e">>), JStr(<<"C","o","l","u","m","n">>)>>)
    ELSE JStr(<<"T","a","b","l","e">>)

\* [record.data() for record in result]: the n records the store returns for query
SchemaRecords(query, columns, n) == [i \in 1..n |-> [c \in columns |-> Cell(query, c, i)]]

SchemaRequiredMessage == <<"s","c","h","e","m","a","_","t","y","p","e"," ","p","a","r","a","m","e","t","e","r"," ","i","s"," ","r","e","q","u","i","r","e","d">>

UnknownSchemaTypePrefix == <<"U","n","k","n","o","w","n"," ","s","c","h","e","m","a","_","t","y","p","e",":"," ">>

SchemaFailedPrefix == <<"S","c","h","e","m","a"," ","e","x","p","l","o","r","a","t","i","o","n"," ","f","a","i","l","e","d",":"," ">>

\* Neo4jSchemaTool._execute_query(query), the driver answering with outcome and
\* n records of the given columns
SchemaExecuteQuery(self, query, outcome, columns, n) ==
    IF ~self.driver
    THEN Raise("RuntimeError", NotConnectedMessage, <<>>)
    ELSE Bind(WithSession(query, outcome), LAMBDA ran :
            IF outcome = "ok"
            THEN Return(SchemaRecords(query, columns, n), ran)
            ELSE Raise("RuntimeError", QueryFailedPrefix \o DriverErrorText, ran))

\* the queries of _get_database_overview, in the order of the dict
overview_queries ==
    << [key |-> <<"n","o","d","e","_","c","o","u","n","t">>, query |-> <<"M","A","T","C","H"," ","(","n",")"," ","R","E","T","U","R","N"," ","c","o","u","n","t","(","n",")"," ","a","s"," ","c","o","u","n","t">>,
        columns |-> {<<"c","o","u","n","t">>}],
       [key |-> <<"r","e","l","a","t","i","o","n","s","h","i","p","_","c","o","u","n","t">>, query |-> <<"M","A","T","C","H"," ","(",")","-","[","r","]","-",">","(",")"," ","R","E","T","U","R","N"," ","c","o","u","n","t","(","r",")"," ","a","s"," ","c","o","u","n","t">>,
        columns |-> {<<"c","o","u","n","t">>}],
       [key |-> <<"l","a","b","e","l","s">>, query |-> <<"C","A","L","L"," ","d","b",".","l","a","b","e","l","s","(",")"," ","Y","I","E","L","D"," ","l","a","b","e","l"," ","R","E","T","U","R","N"," ","c","o","l","l","e","c","t","(","l","a","b","e","l",")"," ","a","s"," ","l","a","b","e","l","s">>,
        columns |-> {<<"l","a","b","e","l","s">>}],
       [key |-> <<"r","e","l","a","t","i","o","n","s","h","i","p","_","t","y","p","e","s">>,
        query |-> <<"C","A","L","L"," ","d","b",".","r","e","l","a","t","i","o","n","s","h","i","p","T","y","p","e","s","(",")"," ","Y","I","E","L","D"," ","r","e","l","a","t","i","o","n","s","h","i","p","T","y","p","e"," ","R","E","T","U","R","N"," ","c","o","l","l","e","c","t","(","r","e","l","a","t","i","o","n","s","h","i","p","T","y","p","e",")"," ","a","s"," ","t","y","p","e","s">>,
        columns |-> {<<"t","y","p","e","s">>}] >>

\* the body of the loop of _get_database_overview for one key: the value stored
\* in results[key] and what happened
OverviewEntry(self, entry, outcome, n) ==
    Bind(SchemaExecuteQuery(self, entry.query, outcome, entry.columns, n), LAMBDA r :
        IF ~r.ok
        THEN [value |-> None, events |-> r.events]
        ELSE IF entry.key \in {<<"n","o","d","e","_","c","o","u","n","t">>, <<"r","e","l","a","t","i","o","n","s","h","i","p","_","c","o","u","n","t">>}
        THEN [value |-> IF r.value # <<>> THEN r.value[1][<<"c","o","u","n","t">>] ELSE JInt(0),
              events |-> r.events]
        ELSE IF r.value = <<>>
        THEN [value |-> JList(<<>>), events |-> r.events]
        ELSE IF SplitFirst(entry.key, "_") \in DOMAIN r.value[1]
        THEN [value |-> r.value[1][SplitFirst(entry.key, "_")], events |-> r.events]
        ELSE [value |-> None, events |-> r.events])

\* len(value) if value else 0
LenOrZero(value) == IF Truthy(value) THEN Len(value.l) ELSE 0

\* _get_database_overview
GetDatabaseOverview(self, drv) ==
    Bind([i \in 1..4 |-> OverviewEntry(self, overview_queries[i], drv.seq[i], drv.rows)],
         LAMBDA results :
        Return([database_type |-> "PostgreSQL",
                storage_type |-> "Neo4j",
                source_database |-> "Pagila PostgreSQL Database",
                schema_type |-> "overview",
                purpose |-> <<"P","o","s","t","g","r","e","S","Q","L"," ","S","Q","L"," ","q","u","e","r","y"," ","g","e","n","e","r","a","t","i","o","n">>,
                overview |->
                    [total_postgresql_entities |-> results[1].value,
                     total_relationships |-> results[2].value,
                     postgresql_entity_types |-> results[3].value,
                     relationship_types |-> results[4].value,
                     entity_type_count |-> LenOrZero(results[3].value),
                     relationship_type_count |-> LenOrZero(results[4].value)]],
               results[1].events \o results[2].events
                   \o results[3].events \o results[4].events))

\* a fallback that runs the three queries whatever the earlier ones did, and
\* returns what the first that succeeded returned
ThreeTier_eager(self, apoc_query, fallback_query, simple_query, columns, drv) ==
    Bind(SchemaExecuteQuery(self, apoc_query, drv.seq[1], columns, drv.rows), LAMBDA first :
    Bind(SchemaExecuteQuery(self, fallback_query, drv.seq[2], columns, drv.rows), LAMBDA second :
    Bind(SchemaExecuteQuery(self, simple_query, drv.seq[3], columns, drv.rows), LAMBDA third :
    Bind(first.events \o second.events \o third.events, LAMBDA ran :
        IF first.ok THEN Return(first.value, ran)
        ELSE IF second.ok THEN Return(second.value, ran)
        ELSE IF third.ok THEN Return(third.value, ran)
        ELSE Raise(third.exc, third.msg, ran)))))

\* try apoc_query, then fallback_query, then simple_query: each is run only when
\* the one before it raised; a failure of simple_query is raised to the caller
ThreeTier(self, apoc_query, fallback_query, simple_query, columns, drv) ==
    Bind(SchemaExecuteQuery(self, apoc_query, drv.seq[1], columns, drv.rows), LAMBDA first :
        IF first.ok THEN first
        ELSE
        Bind(SchemaExecuteQuery(self, fallback_query, drv.seq[2], columns, drv.rows), LAMBDA second :
        IF second.ok THEN Return(second.value, first.events \o second.events)
        ELSE
        Bind(SchemaExecuteQuery(self, simple_query, drv.seq[3], columns, drv.rows), LAMBDA third :
        IF third.ok
        THEN Return(third.value, first.events \o second.events \o third.events)
        ELSE Raise(third.exc, third.msg, first.events \o second.events \o third.events))))

\* _get_node_labels
GetNodeLabels(self, drv) ==
    Bind(ThreeTier(self, nodes_apoc_query, nodes_fallback_query, nodes_simple_query,
                   {<<"l","a","b","e","l">>, <<"c","o","u","n","t">>}, drv), LAMBDA r :
        IF ~r.ok THEN r
        ELSE Return([database_type |-> "PostgreSQL",
                     storage_type |-> "Neo4j",
                     schema_type |-> "nodes",
                     purpose |-> <<"I","d","e","n","t","i","f","y"," ","P","o","s","t","g","r","e","S","Q","L"," ","e","n","t","i","t","i","e","s"," ","f","o","r"," ","S","Q","L"," ","g","e","n","e","r","a","t","i","o","n">>,
                     postgresql_entities |-> r.value], r.events))

\* _get_relationship_types
GetRelationshipTypes(self, drv) ==
    Bind(ThreeTier(self, relationships_apoc_query, relationships_fallback_query,
                   relationships_simple_query, {<<"r","e","l","a","t","i","o","n","s","h","i","p","T","y","p","e">>, <<"c","o","u","n","t">>}, drv), LAMBDA r :
        IF ~r.ok THEN r
        ELSE Return([database_type |-> "PostgreSQL",
                     storage_type |-> "Neo4j",
                     schema_type |-> "relationships",
                     purpose |-> <<"U","n","d","e","r","s","t","a","n","d"," ","P","o","s","t","g","r","e","S","Q","L"," ","r","e","l","a","t","i","o","n","s","h","i","p","s"," ","f","o","r"," ","J","O","I","N"," ","o","p","e","r","a","t","i","o","n","s">>,
                     postgresql_relationships |-> r.value], r.events))

\* the query _get_node_properties builds for a label
LabelQuery(node_label) ==
    <<"\n"," "," "," "," "," "," "," "," "," "," "," "," ","M","A","T","C","H"," ","(","n",":">> \o Format(node_label) \o <<")","\n"," "," "," "," "," "," "," "," "," "," "," "," ","W","I","T","H"," ","k","e","y","s","(","n",")"," ","a","s"," ","p","r","o","p","s","\n"," "," "," "," "," "," "," "," "," "," "," "," ","U","N","W","I","N","D"," ","p","r","o","p","s"," ","a","s"," ","p","r","o","p","\n"," "," "," "," "," "," "," "," "," "," "," "," ","R","E","T","U","R","N"," ","D","I","S","T","I","N","C","T"," ","p","r","o","p"," ","a","s"," ","p","r","o","p","e","r","t","y","\n"," "," "," "," "," "," "," "," "," "," "," "," ","O","R","D","E","R"," ","B","Y"," ","p","r","o","p","\n"," "," "," "," "," "," "," "," "," "," "," "," ","L","I","M","I","T"," ","1","0","0","\n"," "," "," "," "," "," "," "," "," "," "," "," ">>

NoLowerMessage == <<"'","i","n","t","'"," ","o","b","j","e","c","t"," ","h","a","s"," ","n","o"," ","a","t","t","r","i","b","u","t","e"," ","'","l","o","w","e","r","'">>

\* _get_node_properties(node_label) for a truthy node_label
GetLabelProperties(self, node_label, drv) ==
    Bind(SchemaExecuteQuery(self, LabelQuery(node_label), drv.seq[1], {<<"p","r","o","p","e","r","t","y">>}, drv.rows),
         LAMBDA r :
        IF ~r.ok THEN r
        ELSE IF node_label.t # "str"
        THEN Raise("AttributeError", NoLowerMessage, r.events)
        ELSE Return([database_type |-> "PostgreSQL",
                     storage_type |-> "Neo4j",
                     schema_type |-> "properties",
                     purpose |-> <<"P","o","s","t","g","r","e","S","Q","L"," ">> \o Lower(node_label.s)
                                    \o <<" ","p","r","o","p","e","r","t","i","e","s"," ","f","o","r"," ","S","Q","L"," ","g","e","n","e","r","a","t","i","o","n">>,
                     postgresql_entity_type |-> node_label,
                     properties |-> [i \in 1..Len(r.value) |-> r.value[i][<<"p","r","o","p","e","r","t","y">>]]],
                    r.events))

\* _get_node_properties(node_label)
GetNodeProperties(self, node_label, drv) ==
    IF Truthy(node_label)
    THEN GetLabelProperties(self, node_label, drv)
    ELSE
    Bind(ThreeTier(self, properties_apoc_query, properties_fallback_query,
                   properties_simple_query, {<<"l","a","b","e","l">>, <<"p","r","o","p","e","r","t","i","e","s">>}, drv), LAMBDA r :
        IF ~r.ok THEN r
        ELSE Return([database_type |-> "PostgreSQL",
                     storage_type |-> "Neo4j",
                     schema_type |-> "properties",
                     purpose |-> <<"P","o","s","t","g","r","e","S","Q","L"," ","e","n","t","i","t","y"," ","p","r","o","p","e","r","t","i","e","s"," ","f","o","r"," ","S","Q","L"," ","g","e","n","e","r","a","t","i","o","n">>,
                     postgresql_entity_properties |-> r.value], r.events))

\* the queries of _get_sample_data(limit), in the order of the dict
sample_queries(limit) ==
    << [key |-> "sample_nodes",
        query |-> <<"M","A","T","C","H"," ","(","n",")"," ","R","E","T","U","R","N"," ","l","a","b","e","l","s","(","n",")"," ","a","s"," ","l","a","b","e","l","s",","," ","k","e","y","s","(","n",")"," ","a","s"," ","p","r","o","p","e","r","t","i","e","s"," ","L","I","M","I","T"," ">>
                    \o Format(limit),
        columns |-> {<<"l","a","b","e","l","s">>, <<"p","r","o","p","e","r","t","i","e","s">>}],
       [key |-> "sample_relationships",
        query |-> <<"M","A","T","C","H"," ","(","a",")","-","[","r","]","-",">","(","b",")"," ","R","E","T","U","R","N"," ","l","a","b","e","l","s","(","a",")"," ","a","s"," ","f","r","o","m","_","l","a","b","e","l","s",","," ","t","y","p","e","(","r",")"," ","a","s"," ","r","e","l","a","t","i","o","n","s","h","i","p","_","t","y","p","e",","," ","l","a","b","e","l","s","(","b",")"," ","a","s"," ","t","o","_","l","a","b","e","l","s"," ","L","I","M","I","T"," ">>
                    \o Format(limit),
        columns |-> {<<"f","r","o","m","_","l","a","b","e","l","s">>, <<"r","e","l","a","t","i","o","n","s","h","i","p","_","t","y","p","e">>, <<"t","o","_","l","a","b","e","l","s">>}] >>

\* the body of the loop of _get_sample_data for one key
SampleEntry(self, entry, outcome, n) ==
    Bind(SchemaExecuteQuery(self, entry.query, outcome, entry.columns, n), LAMBDA r :
        IF r.ok THEN [value |-> r.value, events |-> r.events]
        ELSE [value |-> <<>>, events |-> r.events])

\* a _get_sample_data that gives up on the relationships once the entity query failed
GetSampleData_abort(self, limit, drv) ==
    Bind(SampleEntry(self, sample_queries(limit)[1], drv.seq[1], drv.rows), LAMBDA first :
    Bind(IF first.value = <<>> THEN [value |-> <<>>, events |-> <<>>]
         ELSE SampleEntry(self, sample_queries(limit)[2], drv.seq[2], drv.rows), LAMBDA second :
        Return([database_type |-> "PostgreSQL",
                storage_type |-> "Neo4j",
                schema_type |-> "sample_data",
                purpose |-> <<"S","a","m","p","l","e"," ","P","o","s","t","g","r","e","S","Q","L"," ","s","c","h","e","m","a"," ","e","l","e","m","e","n","t","s"," ","f","o","r"," ","u","n","d","e","r","s","t","a","n","d","i","n","g"," ","s","t","r","u","c","t","u","r","e">>,
                sample_postgresql_entities |-> first.value,
                sample_postgresql_relationships |-> second.value],
               first.events \o second.events)))

\* _get_sample_data(limit)
GetSampleData(self, limit, drv) ==
    Bind([i \in 1..2 |-> SampleEntry(self, sample_queries(limit)[i], drv.seq[i], drv.rows)],
         LAMBDA results :
        Return([database_type |-> "PostgreSQL",
                storage_type |-> "Neo4j",
                schema_type |-> "sample_data",
                purpose |-> <<"S","a","m","p","l","e"," ","P","o","s","t","g","r","e","S","Q","L"," ","s","c","h","e","m","a"," ","e","l","e","m","e","n","t","s"," ","f","o","r"," ","u","n","d","e","r","s","t","a","n","d","i","n","g"," ","s","t","r","u","c","t","u","r","e">>,
                sample_postgresql_entities |-> results[1].value,
                sample_postgresql_relationships |-> results[2].value],
               results[1].events \o results[2].events))

\* the part of Neo4jSchemaTool.execute inside its try block
SchemaToolTry(self, schema_type, node_label, limit, drv) ==
    Bind(CASE schema_type = JStr(<<"o","v","e","r","v","i","e","w">>)      -> GetDatabaseOverview(self, drv)
           [] schema_type = JStr(<<"n","o","d","e","s">>)         -> GetNodeLabels(self, drv)
           [] schema_type = JStr(<<"r","e","l","a","t","i","o","n","s","h","i","p","s">>) -> GetRelationshipTypes(self, drv)
           [] schema_type = JStr(<<"p","r","o","p","e","r","t","i","e","s">>)    -> GetNodeProperties(self, node_label, drv)
           [] schema_type = JStr(<<"s","a","m","p","l","e","_","d","a","t","a">>)   -> GetSampleData(self, limit, drv)
           [] OTHER -> Raise("ValueError", UnknownSchemaTypePrefix \o Format(schema_type), <<>>),
         LAMBDA r :
        IF r.ok THEN r
        ELSE Raise("ValueError", SchemaFailedPrefix \o r.msg, r.events))

\* Neo4jSchemaTool.execute(params), params a dict
SchemaToolExecute(self, params, drv) ==
    Bind(Get(params, "schema_type", None), LAMBDA schema_type :
        IF ~Truthy(schema_type)
        THEN Raise("ValueError", SchemaRequiredMessage, <<>>)
        ELSE SchemaToolTry(self, schema_type, Get(params, "node_label", None),
                           Get(params, "limit", JInt(100)), drv))

---------------------------------------------------------------------------
(* MCPTool and the tools the application constructs *)

QueryToolName == <<"n","e","o","4","j","_","q","u","e","r","y">>

SchemaToolName == <<"n","e","o","4","j","_","s","c","h","e","m","a">>

\* Neo4jQueryTool(): inst tells instances apart; driver is FALSE when _connect
\* failed and left self.driver = None
QueryTool(inst, driver) ==
    [cls |-> "Neo4jQueryTool",
     name |-> QueryToolName,
     inst |-> inst,
     driver |-> driver,
     parameters |-> << [name |-> "cypher_query", type |-> "string", required |-> TRUE],
                       [name |-> "limit", type |-> "integer", required |-> FALSE],
                       [name |-> "include_query_plan", type |-> "boolean", required |-> FALSE] >>]

\* Neo4jSchemaTool()
SchemaTool(inst, driver) ==
    [cls |-> "Neo4jSchemaTool",
     name |-> SchemaToolName,
     inst |-> inst,
     driver |-> driver,
     parameters |-> << [name |-> "schema_type", type |-> "string", required |-> TRUE,
                        enum |-> <<"overview", "nodes", "relationships", "properties",
                                   "sample_data">>],
                       [name |-> "node_label", type |-> "string", required |-> FALSE],
                       [name |-> "limit", type |-> "integer", required |-> FALSE] >>]

\* the names of all the parameters of a list, required or not
RequiredNames_all(parameters) == [i \in 1..Len(parameters) |-> parameters[i].name]

\* the names of the parameters of a list that are marked required, in order
RECURSIVE RequiredNames(_)
RequiredNames(parameters) ==
    IF parameters = <<>> THEN <<>>
    ELSE (IF parameters[1].required THEN <<parameters[1].name>> ELSE <<>>)
         \o RequiredNames(Tail(parameters))

\* MCPTool.get_schema
get_schema(tool) ==
    [name |-> tool.name,
     inputSchema |->
        [type |-> "object",
         properties |-> [i \in 1..Len(tool.parameters) |->
                            [name |-> tool.parameters[i].name,
                             type |-> tool.parameters[i].type]
                            @@ (IF "enum" \in DOMAIN tool.parameters[i]
                                THEN [enum |-> tool.parameters[i].enum] ELSE <<>>)],
         required |-> RequiredNames(tool.parameters)]]

NoGetMessage == <<"'","l","i","s","t","'"," ","o","b","j","e","c","t"," ","h","a","s"," ","n","o"," ","a","t","t","r","i","b","u","t","e"," ","'","g","e","t","'">>

\* tool.execute(params): dispatch on the tool's class
ToolExecute(tool, params, drv) ==
    Bind(<< [e |-> "execute", name |-> tool.name, inst |-> tool.inst] >>, LAMBDA call :
        IF params.t # "map"
        THEN Raise("AttributeError", NoGetMessage, call)
        ELSE Bind(IF tool.cls = "Neo4jSchemaTool"
                  THEN SchemaToolExecute(tool, params, drv)
                  ELSE QueryToolExecute(tool, params, drv), LAMBDA r :
                [r EXCEPT !.events = call \o r.events]))

---------------------------------------------------------------------------
(* MCPServer *)

\* self.tools is a dict: a sequence of [key, tool] entries in insertion order
HasTool(registry, name) == \E i \in 1..Len(registry) : registry[i].key = name

LookupTool(registry, name) ==
    registry[CHOOSE i \in 1..Len(registry) : registry[i].key = name].tool

\* a register_tool that adds an entry whether or not the name is taken
StoreTool_append(registry, tool) == Append(registry, [key |-> tool.name, tool |-> tool])

\* self.tools[tool.name] = tool: an existing key keeps its place
StoreTool(registry, tool) ==
    IF HasTool(registry, tool.name)
    THEN [i \in 1..Len(registry) |->
            IF registry[i].key = tool.name
            THEN [key |-> tool.name, tool |-> tool]
            ELSE registry[i]]
    ELSE Append(registry, [key |-> tool.name, tool |-> tool])

server_info ==
    [name |-> "Neo4j Schema MCP Server",
     version |-> "1.0.0",
     description |-> "Neo4j database schema exposure for Cypher/text-to-SQL generation"]

\* MCPServer.list_tools
list_tools(registry) == [i \in 1..Len(registry) |-> get_schema(registry[i].tool)]

\* MCPServer.get_server_info
get_server_info(registry) ==
    server_info @@
    [tools_count |-> Len(registry),
     capabilities |-> [tools |-> TRUE, resources |-> FALSE, prompts |-> FALSE]]

\* a to_dict that sets result whether or not error is set
to_dict_always_result(resp) ==
    [jsonrpc |-> "2.0"]
    @@ (IF resp.error # None THEN [error |-> resp.error] ELSE <<>>)
    @@ [result |-> resp.result]
    @@ (IF resp.id # None THEN [id |-> resp.id] ELSE <<>>)

\* JSONRPCResponse.to_dict: resp is [result, error, id], each None when unset
to_dict(resp) ==
    [jsonrpc |-> "2.0"]
    @@ (IF resp.error # None THEN [error |-> resp.error] ELSE [result |-> resp.result])
    @@ (IF resp.id # None THEN [id |-> resp.id] ELSE <<>>)

\* JSONRPCResponse(result=..., error=..., id=...)
JSONRPCResponse(result, error, id) == [result |-> result, error |-> error, id |-> id]

\* MCPServer._create_error_response(code, message, data); data = <<>> is falsy
create_error_response(code, message, data) ==
    to_dict(JSONRPCResponse(None,
                            [code |-> code, message |-> message]
                                @@ (IF data # <<>> THEN [data |-> data] ELSE <<>>),
                            None))

DefaultProtocolVersion == <<"2","0","2","4","-","1","1","-","0","5">>

\* a _handle_initialize that answers with its own protocol version whatever was asked
handle_initialize_own_version(params) ==
    IF params.t # "map"
    THEN Raise("AttributeError", NoGetMessage, <<>>)
    ELSE Return([protocolVersion |-> JStr(DefaultProtocolVersion),
                 capabilities |-> [tools |-> EmptyMap],
                 serverInfo |-> server_info], <<>>)

\* _handle_initialize(params)
handle_initialize(params) ==
    IF params.t # "map"
    THEN Raise("AttributeError", NoGetMessage, <<>>)
    ELSE Return([protocolVersion |-> Get(params, "protocolVersion", JStr(DefaultProtocolVersion)),
                 capabilities |-> [tools |-> EmptyMap],
                 serverInfo |-> server_info], <<>>)

\* a _handle_list_tools whose result also carries the params it was given
handle_list_tools_echo(registry, params) ==
    Return([tools |-> list_tools(registry), params |-> params], <<>>)

\* _handle_list_tools(params)
handle_list_tools(registry, params) == Return([tools |-> list_tools(registry)], <<>>)

\* _handle_server_info(params)
handle_server_info(registry, params) == Return(get_server_info(registry), <<>>)

MissingNameMessage == <<"M","i","s","s","i","n","g"," ","r","e","q","u","i","r","e","d"," ","p","a","r","a","m","e","t","e","r",":"," ","n","a","m","e">>

ToolNotFoundPrefix == <<"T","o","o","l"," ","n","o","t"," ","f","o","u","n","d",":"," ">>

ToolFailedPrefix == <<"T","o","o","l"," ","e","x","e","c","u","t","i","o","n"," ","f","a","i","l","e","d",":"," ">>

ListIndexMessage == <<"l","i","s","t"," ","i","n","d","i","c","e","s"," ","m","u","s","t"," ","b","e"," ","i","n","t","e","g","e","r","s"," ","o","r"," ","s","l","i","c","e","s",","," ","n","o","t"," ","s","t","r">>

\* 'name' in params: a key of a dict, an element of a list
NameInParams(params) ==
    IF params.t = "map" THEN HasKey(params, "name")
    ELSE \E i \in 1..Len(params.l) : params.l[i] = JStr(<<"n","a","m","e">>)

\* json.dumps(result, indent=2, default=str): the text, kept as the value it decodes to
json_dumps(value) == [json |-> value]

\* a try block that drops str(e) from the failure it re-raises
call_tool_try_generic(tool, tool_params, drv) ==
    Bind(ToolExecute(tool, tool_params, drv), LAMBDA r :
        IF r.ok
        THEN Return([content |-> << [type |-> "text", text |-> json_dumps(r.value)] >>],
                    r.events)
        ELSE Raise("Exception", ToolFailedPrefix, r.events))

\* the try block of _handle_call_tool
call_tool_try(tool, tool_params, drv) ==
    Bind(ToolExecute(tool, tool_params, drv), LAMBDA r :
        IF r.ok
        THEN Return([content |-> << [type |-> "text", text |-> json_dumps(r.value)] >>],
                    r.events)
        ELSE Raise("Exception", ToolFailedPrefix \o r.msg, r.events))

\* a _handle_call_tool that falls back to the first registered tool for an unknown name
handle_call_tool_default(registry, params, drv) ==
    IF ~NameInParams(params)
    THEN Raise("ValueError", MissingNameMessage, <<>>)
    ELSE IF params.t # "map"
    THEN Raise("TypeError", ListIndexMessage, <<>>)
    ELSE
    Bind(params.m["name"].s, LAMBDA tool_name :
    Bind(Get(params, "arguments", EmptyMap), LAMBDA tool_params :
        IF HasTool(registry, tool_name)
        THEN call_tool_try(LookupTool(registry, tool_name), tool_params, drv)
        ELSE IF registry # <<>>
        THEN call_tool_try(registry[1].tool, tool_params, drv)
        ELSE Raise("ValueError", ToolNotFoundPrefix \o tool_name, <<>>)))

\* a _handle_call_tool without the membership test: the lookup of an unknown name
\* fails inside the try block with KeyError
handle_call_tool_unchecked(registry, params, drv) ==
    IF ~NameInParams(params)
    THEN Raise("ValueError", MissingNameMessage, <<>>)
    ELSE IF params.t # "map"
    THEN Raise("TypeError", ListIndexMessage, <<>>)
    ELSE
    Bind(params.m["name"].s, LAMBDA tool_name :
    Bind(Get(params, "arguments", EmptyMap), LAMBDA tool_params :
        IF ~HasTool(registry, tool_name)
        THEN Raise("Exception", ToolFailedPrefix \o <<"'">> \o tool_name \o <<"'">>, <<>>)
        ELSE call_tool_try(LookupTool(registry, tool_name), tool_params, drv)))

\* _handle_call_tool(params)
handle_call_tool(registry, params, drv) ==
    IF ~NameInParams(params)
    THEN Raise("ValueError", MissingNameMessage, <<>>)
    ELSE IF params.t # "map"
    THEN Raise("TypeError", ListIndexMessage, <<>>)
    ELSE
    Bind(params.m["name"].s, LAMBDA tool_name :
    Bind(Get(params, "arguments", EmptyMap), LAMBDA tool_params :
        IF ~HasTool(registry, tool_name)
        THEN Raise("ValueError", ToolNotFoundPrefix \o tool_name, <<>>)
        ELSE call_tool_try(LookupTool(registry, tool_name), tool_params, drv)))

M_initialize == <<"i","n","i","t","i","a","l","i","z","e">>

M_tools_list == <<"t","o","o","l","s","/","l","i","s","t">>

M_tools_call == <<"t","o","o","l","s","/","c","a","l","l">>

M_server_info == <<"s","e","r","v","e","r","/","i","n","f","o">>

\* the keys of method_handlers
method_handlers == {M_initialize, M_tools_list, M_tools_call, M_server_info}

MethodNotFoundPrefix == <<"M","e","t","h","o","d"," ","n","o","t"," ","f","o","u","n","d",":"," ">>

ErrorExecutingPrefix == <<"E","r","r","o","r"," ","e","x","e","c","u","t","i","n","g"," ">>

\* request.params or {}
ParamsOrEmpty(params) == IF Truthy(params) THEN params ELSE EmptyMap

\* the handler method_handlers binds to method, applied to params
RunHandler(registry, method, params, drv) ==
    CASE method = M_initialize  -> handle_initialize(params)
      [] method = M_tools_list  -> handle_list_tools(registry, params)
      [] method = M_tools_call  -> handle_call_tool(registry, params, drv)
      [] method = M_server_info -> handle_server_info(registry, params)

\* a try block whose error response for a failed handler leaves the id unset
dispatch_try_anonymous_error(registry, request, drv) ==
    Bind(RunHandler(registry, request.method, ParamsOrEmpty(request.params), drv), LAMBDA r :
    Bind(<< [e |-> "handler", method |-> request.method] >> \o r.events, LAMBDA ran :
        IF r.ok
        THEN [response |-> JSONRPCResponse(r.value, None, request.id), events |-> ran]
        ELSE [response |-> JSONRPCResponse(None,
                               [code |-> -32603,
                                message |-> ErrorExecutingPrefix \o request.method,
                                data |-> r.msg],
                               None),
              events |-> ran]))

\* a try block that reports a failed handler with an application-defined code
dispatch_try_application_code(registry, request, drv) ==
    Bind(RunHandler(registry, request.method, ParamsOrEmpty(request.params), drv), LAMBDA r :
    Bind(<< [e |-> "handler", method |-> request.method] >> \o r.events, LAMBDA ran :
        IF r.ok
        THEN [response |-> JSONRPCResponse(r.value, None, request.id), events |-> ran]
        ELSE [response |-> JSONRPCResponse(None,
                               [code |-> -32000,
                                message |-> ErrorExecutingPrefix \o request.method,
                                data |-> r.msg],
                               request.id),
              events |-> ran]))

\* a try block that reports a handler's ValueError as an Invalid Request
dispatch_try_classify(registry, request, drv) ==
    Bind(RunHandler(registry, request.method, ParamsOrEmpty(request.params), drv), LAMBDA r :
    Bind(<< [e |-> "handler", method |-> request.method] >> \o r.events, LAMBDA ran :
        IF r.ok
        THEN [response |-> JSONRPCResponse(r.value, None, request.id), events |-> ran]
        ELSE [response |-> JSONRPCResponse(None,
                               [code |-> IF r.exc = "ValueError" THEN -32600 ELSE -32603,
                                message |-> ErrorExecutingPrefix \o request.method,
                                data |-> r.msg],
                               request.id),
              events |-> ran]))

\* the try block of _dispatch_method
dispatch_try(registry, request, drv) ==
    Bind(RunHandler(registry, request.method, ParamsOrEmpty(request.params), drv), LAMBDA r :
    Bind(<< [e |-> "handler", method |-> request.method] >> \o r.events, LAMBDA ran :
        IF r.ok
        THEN [response |-> JSONRPCResponse(r.value, None, request.id), events |-> ran]
        ELSE [response |-> JSONRPCResponse(None,
                               [code |-> -32603,
                                message |-> ErrorExecutingPrefix \o request.method,
                                data |-> r.msg],
                               request.id),
              events |-> ran]))

\* a _dispatch_method whose method-not-found response leaves the id unset
dispatch_method_no_id(registry, request, drv) ==
    IF request.method \notin method_handlers
    THEN [response |-> JSONRPCResponse(None,
                            [code |-> -32601,
                             message |-> MethodNotFoundPrefix \o request.method],
                            None),
          events |-> <<>>]
    ELSE dispatch_try(registry, request, drv)

\* MCPServer._dispatch_method(request): the JSONRPCResponse and what happened
dispatch_method(registry, request, drv) ==
    IF request.method \notin method_handlers
    THEN [response |-> JSONRPCResponse(None,
                            [code |-> -32601,
                             message |-> MethodNotFoundPrefix \o request.method],
                            request.id),
          events |-> <<>>]
    ELSE dispatch_try(registry, request, drv)

\* JSONRPCRequest.from_dict(data), data a dict with a 'method'
from_dict(data) ==
    [jsonrpc |-> Get(data, "jsonrpc", JStr(<<"2",".","0">>)),
     method |-> data.m["method"].s,
     params |-> Get(data, "params", None),
     id |-> Get(data, "id", None)]

\* an is_notification that takes every falsy id, 0 and the empty string too, for
\* a missing one
is_notification_falsy(request) == ~Truthy(request.id)

\* JSONRPCRequest.is_notification
is_notification(request) == request.id = None

ParseErrorMessage == <<"P","a","r","s","e"," ","e","r","r","o","r">>

InvalidRequestMessage == <<"I","n","v","a","l","i","d"," ","R","e","q","u","e","s","t">>

InternalErrorMessage == <<"I","n","t","e","r","n","a","l"," ","e","r","r","o","r">>

MissingMethodData == <<"M","i","s","s","i","n","g"," ","f","i","e","l","d",":"," ","'","m","e","t","h","o","d","'">>

\* an except clause that lets the failure go on to the caller of handle_request
outer_except_reraise(exc, msg) ==
    [ret |-> [raised |-> exc, msg |-> msg], dispatched |-> None, events |-> <<>>]

\* the except clause of handle_request: a failure raised in its try block
\* outside _dispatch_method's own try
outer_except(exc, msg) ==
    [ret |-> create_error_response(-32603, InternalErrorMessage, msg),
     dispatched |-> None, events |-> <<>>]

\* a handle_request that returns None for a notification without dispatching it
handle_parsed_skip_notifications(registry, request_dict, drv) ==
    IF request_dict.t # "map"
    THEN outer_except("AttributeError", NoGetMessage)
    ELSE IF ~HasKey(request_dict, "method")
    THEN [ret |-> create_error_response(-32600, InvalidRequestMessage, MissingMethodData),
          dispatched |-> None, events |-> <<>>]
    ELSE Bind(from_dict(request_dict), LAMBDA request :
            IF is_notification(request)
            THEN [ret |-> None, dispatched |-> None, events |-> <<>>]
            ELSE Bind(dispatch_method(registry, request, drv), LAMBDA d :
                 [ret |-> to_dict(d.response), dispatched |-> d.response,
                  events |-> d.events]))

\* a handle_request that suppresses only the successful responses of notifications
handle_parsed_report_errors(registry, request_dict, drv) ==
    IF request_dict.t # "map"
    THEN outer_except("AttributeError", NoGetMessage)
    ELSE IF ~HasKey(request_dict, "method")
    THEN [ret |-> create_error_response(-32600, InvalidRequestMessage, MissingMethodData),
          dispatched |-> None, events |-> <<>>]
    ELSE Bind(from_dict(request_dict), LAMBDA request :
         Bind(dispatch_method(registry, request, drv), LAMBDA d :
            IF is_notification(request) /\ d.response.error = None
            THEN [ret |-> None, dispatched |-> d.response, events |-> d.events]
            ELSE [ret |-> to_dict(d.response), dispatched |-> d.response, events |-> d.events]))

\* a handle_request that reads a missing method as the empty method name
handle_parsed_default_method(registry, request_dict, drv) ==
    IF request_dict.t # "map"
    THEN outer_except("AttributeError", NoGetMessage)
    ELSE Bind([jsonrpc |-> Get(request_dict, "jsonrpc", JStr(<<"2",".","0">>)),
               method |-> Get(request_dict, "method", JStr(<<>>)).s,
               params |-> Get(request_dict, "params", None),
               id |-> Get(request_dict, "id", None)], LAMBDA request :
         Bind(dispatch_method(registry, request, drv), LAMBDA d :
            IF is_notification(request)
            THEN [ret |-> None, dispatched |-> d.response, events |-> d.events]
            ELSE [ret |-> to_dict(d.response), dispatched |-> d.response, events |-> d.events]))

\* the part of handle_request after the input is parsed
handle_parsed(registry, request_dict, drv) ==
    IF request_dict.t # "map"
    THEN outer_except("AttributeError", NoGetMessage)
    ELSE IF ~HasKey(request_dict, "method")
    THEN [ret |-> create_error_response(-32600, InvalidRequestMessage, MissingMethodData),
          dispatched |-> None, events |-> <<>>]
    ELSE Bind(from_dict(request_dict), LAMBDA request :
         Bind(dispatch_method(registry, request, drv), LAMBDA d :
            IF is_notification(request)
            THEN [ret |-> None, dispatched |-> d.response, events |-> d.events]
            ELSE [ret |-> to_dict(d.response), dispatched |-> d.response, events |-> d.events]))

\* a handle_request that unregisters every tool when the request failed
tools_after_drop_failed(registry, dispatched) ==
    IF dispatched # None /\ dispatched.error # None THEN <<>> ELSE registry

\* self.tools when handle_request returns: neither handle_request nor anything it
\* calls assigns to self.tools or to a field of a registered tool
tools_after(registry, dispatched) == registry

\* MCPServer.handle_request(request_data): request_data is a dict, or raw text
\* given by what json.loads makes of it
handle_request(registry, request_data, drv) ==
    IF request_data.t = "text"
    THEN IF ~request_data.loads.ok
         THEN IF request_data.loads.exc = "JSONDecodeError"
              THEN [ret |-> create_error_response(-32700, ParseErrorMessage,
                                                  request_data.loads.err),
                    dispatched |-> None, events |-> <<>>]
              ELSE outer_except(request_data.loads.exc, request_data.loads.err)
         ELSE handle_parsed(registry, request_data.loads.value, drv)
    ELSE handle_parsed(registry, request_data, drv)

---------------------------------------------------------------------------
(* Inputs *)

\* a key a dict does not have
Absent == [t |-> "absent"]

\* the dict of the fields of rec that are not Absent
DictOf(rec) == JMap([k \in {k \in DOMAIN rec : rec[k] # Absent} |-> rec[k]])

UnknownMethods == { <<"T","o","o","l","s","/","L","i","s","t">>, <<"t","o","o","l","s">>, <<"r","e","s","o","u","r","c","e","s","/","l","i","s","t">> }

RequestMethods == {Absent} \cup {JStr(m) : m \in method_handlers \cup UnknownMethods}

RequestIds == {Absent, None, JInt(0), JInt(1), JStr(<<>>), JStr(<<"r","e","q","-","1">>)}

RequestToolNames == {QueryToolName, SchemaToolName, <<"n","o","n","e","x","i","s","t","e","n","t","_","t","o","o","l">>}

\* the query texts the requests carry
Q_count == <<"M","A","T","C","H"," ","(","n",")"," ","R","E","T","U","R","N"," ","c","o","u","n","t","(","n",")">>

Q_set == <<"M","A","T","C","H"," ","(","n",")"," ","S","E","T"," ","n",".","x"," ","="," ","1">>

Q_detach == <<"M","A","T","C","H"," ","(","n",")"," ","D","E","T","A","C","H"," ","D","E","L","E","T","E"," ","n">>

Q_create == <<"C","R","E","A","T","E"," ","(","n",")">>

Q_select == <<"S","E","L","E","C","T"," ","1">>

RequestQueries == {Q_count, Q_set, Q_detach, Q_create, Q_select}

RequestArguments ==
    {Absent, EmptyMap, JList(<<JInt(1)>>)}
    \cup {DictOf([cypher_query |-> JStr(q), limit |-> l, include_query_plan |-> p]) :
            q \in RequestQueries, l \in {Absent, JInt(5), JInt(1001)}, p \in {Absent, JBool(TRUE)}}

\* the arguments a call of neo4j_schema carries
SchemaArguments ==
    {Absent, JList(<<JInt(1)>>)}
    \cup {DictOf([schema_type |-> s]) :
            s \in {Absent, JStr(<<"o","v","e","r","v","i","e","w">>), JStr(<<"n","o","d","e","s">>), JStr(<<"r","e","l","a","t","i","o","n","s","h","i","p","s">>),
                   JStr(<<"p","r","o","p","e","r","t","i","e","s">>), JStr(<<"s","a","m","p","l","e","_","d","a","t","a">>), JStr(<<"t","a","b","l","e","s">>)}}
    \cup {DictOf([schema_type |-> JStr(<<"p","r","o","p","e","r","t","i","e","s">>), node_label |-> l]) :
            l \in {JStr(<<"T","a","b","l","e">>), JInt(5), JStr(<<"T","a","b","l","e",")"," ","D","E","T","A","C","H"," ","D","E","L","E","T","E"," ","n"," ","/","/">>)}}
    \cup {DictOf([schema_type |-> JStr(<<"s","a","m","p","l","e","_","d","a","t","a">>), limit |-> l]) :
            l \in {JInt(5), JInt(0), JStr(<<"1"," ","U","N","I","O","N"," ","M","A","T","C","H"," ","(","m",")"," ","D","E","T","A","C","H"," ","D","E","L","E","T","E"," ","m">>)}}

\* the arguments a call carries, by the tool it names
ArgumentsFor(name) ==
    IF name = JStr(QueryToolName) THEN RequestArguments
    ELSE IF name = JStr(SchemaToolName) THEN SchemaArguments
    ELSE IF name = Absent THEN {Absent, EmptyMap}
    ELSE {Absent, DictOf([cypher_query |-> JStr(Q_count)])}

CallParams ==
    UNION {{DictOf([name |-> n, arguments |-> a]) : a \in ArgumentsFor(n)} :
            n \in {Absent} \cup {JStr(x) : x \in RequestToolNames}}

\* the calls every id is tried with
FewCallParams ==
    {p \in CallParams :
        Get(p, "arguments", Absent) \in
            {Absent, EmptyMap, DictOf([cypher_query |-> JStr(Q_count)]),
             DictOf([cypher_query |-> JStr(Q_set)]),
             DictOf([schema_type |-> JStr(<<"n","o","d","e","s">>)])}}

InitializeParams == {EmptyMap, DictOf([protocolVersion |-> JStr(<<"2","0","2","5","-","0","3","-","2","6">>)])}

RequestParams(method) ==
    {Absent, None, JList(<<JInt(1)>>)}
    \cup (IF method = JStr(M_tools_call) THEN CallParams ELSE InitializeParams)

\* the dicts handed to handle_request
RequestDicts ==
    UNION {{DictOf([jsonrpc |-> JStr(<<"2",".","0">>), method |-> m, id |-> i, params |-> p]) :
                i \in RequestIds, p \in RequestParams(m)} :
            m \in RequestMethods \ {JStr(M_tools_call)}}
    \cup {DictOf([jsonrpc |-> JStr(<<"2",".","0">>), method |-> JStr(M_tools_call), id |-> i,
                  params |-> p]) :
            i \in RequestIds, p \in {Absent, None, JList(<<JInt(1)>>)} \cup FewCallParams}
    \cup {DictOf([jsonrpc |-> JStr(<<"2",".","0">>), method |-> JStr(M_tools_call), id |-> i,
                  params |-> p]) :
            i \in {Absent, JInt(1)}, p \in CallParams}

\* raw text, by what json.loads makes of it
RawText(loads) == [t |-> "text", loads |-> loads]

\* str(e) of the RecursionError json.loads raises on text nested too deep to decode
RecursionErrorText == <<"m","a","x","i","m","u","m"," ","r","e","c","u","r","s","i","o","n"," ","d","e","p","t","h"," ","e","x","c","e","e","d","e","d"," ","w","h","i","l","e"," ","d","e","c","o","d","i","n","g"," ","a"," ","J","S","O","N"," ","a","r","r","a","y"," ","f","r","o","m"," ","a"," ","u","n","i","c","o","d","e"," ","s","t","r","i","n","g">>

JSONDecodeErrorText == <<"E","x","p","e","c","t","i","n","g"," ","v","a","l","u","e",":"," ","l","i","n","e"," ","1"," ","c","o","l","u","m","n"," ","1"," ","(","c","h","a","r"," ","0",")">>

RawTexts ==
    {RawText([ok |-> FALSE, exc |-> "JSONDecodeError", err |-> JSONDecodeErrorText]),
     RawText([ok |-> FALSE, exc |-> "RecursionError", err |-> RecursionErrorText]),
     RawText([ok |-> TRUE, value |-> JList(<<JInt(1)>>)]),
     RawText([ok |-> TRUE, value |-> DictOf([method |-> JStr(M_tools_list), id |-> JInt(1)])]),
     RawText([ok |-> TRUE, value |-> DictOf([method |-> JStr(M_tools_list)])]),
     RawText([ok |-> TRUE, value |-> DictOf([id |-> JInt(1)])])}

RequestData == RequestDicts \cup RawTexts

\* the driver's answers that differ in nothing a call without a tool can see
NoDriver == [main |-> "ok", plan |-> "ok", rows |-> 0, seq |-> AllSucceed]

\* the first k queries of a schema call fail, the others succeed
FirstFail(k) == [i \in 1..MaxQueries |-> IF i <= k THEN "fail" ELSE "ok"]

\* the name of the tool request_data calls, or Absent
CalledName(request_data) ==
    IF /\ request_data.t = "map"
       /\ Get(request_data, "method", None) = JStr(M_tools_call)
       /\ Get(request_data, "params", None).t = "map"
    THEN Get(request_data.m["params"], "name", Absent)
    ELSE Absent

\* request_data is a call whose arguments ask for the query plan
AsksPlan(request_data) ==
    /\ Get(request_data.m["params"], "arguments", None).t = "map"
    /\ HasKey(Get(request_data.m["params"], "arguments", None), "include_query_plan")

\* the answers of the driver that matter to request_data
DriverOutcomesFor(request_data) ==
    IF CalledName(request_data) = JStr(QueryToolName)
    THEN {d \in DriverOutcomes :
            /\ d.seq = AllSucceed /\ d.rows \in {0, MaxRows}
            /\ (d.plan = "fail") => AsksPlan(request_data)}
    ELSE IF CalledName(request_data) = JStr(SchemaToolName)
    THEN {d \in DriverOutcomes :
            /\ d.main = "ok" /\ d.plan = "ok" /\ d.rows \in {0, MaxRows}
            /\ \E k \in 0..MaxQueries : d.seq = FirstFail(k)}
    ELSE {NoDriver}

\* request_data is a tools/list request and ret the result envelope that answers it
IsListResult(request_data, ret) ==
    /\ IF request_data.t = "text"
       THEN /\ request_data.loads.ok
            /\ request_data.loads.value.t = "map"
            /\ Get(request_data.loads.value, "method", None) = JStr(M_tools_list)
       ELSE /\ request_data.t = "map"
            /\ Get(request_data, "method", None) = JStr(M_tools_list)
    /\ ret # None
    /\ "result" \in DOMAIN ret

\* the tool instances the application can construct
QueryToolPool == {QueryTool(1, TRUE), QueryTool(2, FALSE)}

SchemaToolPool == {SchemaTool(1, TRUE), SchemaTool(2, FALSE)}

ToolPool == QueryToolPool \cup SchemaToolPool

---------------------------------------------------------------------------
(* The server as a state machine *)

\* the number of request threads the transport runs at once
NumThreads == 2

Threads == 1..NumThreads

\* a thread that handles no request
IdleThread == [pc |-> "idle", request |-> None, drv |-> NoDriver, ret |-> None]

VARIABLES
    tools,      \* MCPServer.tools
    op,         \* the call in progress: "idle", "handle_request" or "execute"
    request,    \* the argument of the call in progress
    driver,     \* how the graph driver answers during the call
    response,   \* what the call returned (or raised)
    dispatched, \* the JSONRPCResponse _dispatch_method built during the call, or None
    events,     \* what happened during the call, in order
    listed,     \* the client's copy of the last tools/list result it received since
                \* the registry last changed (again: it was not the first), or None
    threads     \* the transport's request threads (app.run(threaded=True)): for each
                \* its position, its request, its driver's answers and its result

vars == <<tools, op, request, driver, response, dispatched, events, listed, threads>>

\* MCPServer()
Init ==
    /\ tools = <<>>
    /\ op = "idle"
    /\ request = None
    /\ driver = None
    /\ response = None
    /\ dispatched = None
    /\ events = <<>>
    /\ listed = None
    /\ threads = [t \in Threads |-> IdleThread]

\* register_tool(tool)
register_tool(tool) ==
    /\ op = "idle"
    /\ tools' = StoreTool(tools, tool)
    /\ listed' = None
    /\ UNCHANGED <<op, request, driver, response, dispatched, events, threads>>

\* handle_request(request_data)
HandleRequest(request_data, drv) ==
    /\ op = "idle"
    /\ \E r \in {handle_request(tools, request_data, drv)} :
        /\ response' = r.ret
        /\ dispatched' = r.dispatched
        /\ events' = r.events
        /\ listed' = (IF IsListResult(request_data, r.ret)
                      THEN [result |-> r.ret.result, again |-> listed # None]
                      ELSE listed)
        /\ tools' = tools_after(tools, r.dispatched)
    /\ op' = "handle_request"
    /\ request' = request_data
    /\ driver' = drv
    /\ UNCHANGED threads

\* the caller takes what the call returned; the call's objects are discarded
Complete ==
    /\ op # "idle"
    /\ op' = "idle"
    /\ request' = None
    /\ driver' = None
    /\ response' = None
    /\ dispatched' = None
    /\ events' = <<>>
    /\ UNCHANGED <<tools, listed, threads>>

Next ==
    \/ \E tool \in ToolPool : register_tool(tool)
    \/ \E request_data \in RequestData :
        \E drv \in DriverOutcomesFor(request_data) : HandleRequest(request_data, drv)
    \/ Complete

Spec == Init /\ [][Next]_vars

---------------------------------------------------------------------------
(* Neo4jQueryTool.execute called directly, on query texts built from a
   leading part, a middle part and a trailing part *)

QueryPrefixes == {
    <<>>,
    <<"M","A","T","C","H"," ","(","n",")"," ">>,
    <<"m","a","t","c","h"," ","(","n",")"," ">>,
    <<" ","\n","\t","M","A","T","C","H"," ","(","n",")"," ">>,
    <<"/","*"," ","r","e","a","d"," ","*","/"," ","M","A","T","C","H"," ","(","n",")"," ">>,
    <<"O","P","T","I","O","N","A","L"," ","M","A","T","C","H"," ","(","n",")"," ">>,
    <<"P","R","O","F","I","L","E"," ","M","A","T","C","H"," ","(","n",")"," ">>,
    <<"E","X","P","L","A","I","N"," ","M","A","T","C","H"," ","(","n",")"," ">>,
    <<"W","I","T","H"," ","1"," ","A","S"," ","x"," ">>,
    <<"W","I","T","H"," ","\"","/","*","\""," ","A","S"," ","a"," ","M","A","T","C","H"," ","(","n",")"," ">>,
    <<"W","I","T","H"," ","\"","/","/","\""," ","A","S"," ","a"," ","M","A","T","C","H"," ","(","n",")"," ">>,
    <<"C","R","E","A","T","E"," ","(","n",")"," ">>,
    <<"S","E","L","E","C","T"," ","1"," ">>,
    <<"/","/"," ","M","A","T","C","H"," ","(","n",")","\n">> }

QueryBodies == {
    <<>>,
    <<"R","E","T","U","R","N"," ","n">>,
    <<"R","E","T","U","R","N"," ","1">>,
    <<"R","E","T","U","R","N"," ","c","o","u","n","t","(","n",")">>,
    <<"R","E","T","U","R","N"," ","n",".","o","f","f","s","e","t">>,
    <<"R","E","T","U","R","N"," ","n"," ","L","I","M","I","T"," ","3">>,
    <<"D","E","T","A","C","H"," ","D","E","L","E","T","E"," ","n">>,
    <<"d","e","l","e","t","e"," ","n">>,
    <<"S","E","T"," ","n",".","x"," ","="," ","1">>,
    <<"R","E","M","O","V","E"," ","n",".","x">>,
    <<"M","E","R","G","E"," ","(","m",")">>,
    <<"C","A","L","L"," ","d","b",".","l","a","b","e","l","s","(",")">>,
    <<"L","O","A","D","/","*","*","/","C","S","V"," ","F","R","O","M"," ","\"","u","\""," ","A","S"," ","r">>,
    <<"L","O","A","D"," "," ","C","S","V"," ","F","R","O","M"," ","\"","u","\""," ","A","S"," ","r">>,
    <<"/","*"," ","D","R","O","P"," ","*","/"," ","R","E","T","U","R","N"," ","n">> }

QuerySuffixes == {
    <<>>,
    <<";">>,
    <<"\n">>,
    <<" ","/","/","*","/">>,
    <<"\n","R","E","T","U","R","N"," ","1">>,
    <<" ","/","/"," ","t","h","e","n"," ","D","E","L","E","T","E","\n">>,
    <<" ","/","/"," ","t","h","e","n"," ","D","E","L","E","T","E">>,
    <<" ","/","*"," ","K","I","L","L">> }

QueryTexts == {p \o b \o s : p \in QueryPrefixes, b \in QueryBodies, s \in QuerySuffixes}

\* calls that vary the query text
GateCalls ==
    {[self |-> self,
      params |-> DictOf([cypher_query |-> JStr(q)]),
      drv |-> [main |-> m, plan |-> "ok", rows |-> MaxRows, seq |-> AllSucceed]] :
        self \in QueryToolPool, q \in QueryTexts, m \in {"ok", "fail"}}

LimitValues ==
    {Absent, None, JInt(-1), JInt(0), JInt(1), JInt(5), JInt(1000), JInt(1001),
     JBool(TRUE), JStr(<<"5">>)}

\* calls that vary the other parameters and the driver's answers
LimitCalls ==
    {[self |-> self,
      params |-> DictOf([cypher_query |-> q, limit |-> l, include_query_plan |-> p]),
      drv |-> drv] :
        self \in QueryToolPool,
        q \in {Absent, JStr(<<>>), JStr(<<" "," ">>), JStr(Q_count), JStr(Q_set),
               JStr(<<"M","A","T","C","H"," ","(","n",")"," ","R","E","T","U","R","N"," ","n"," ","L","I","M","I","T"," ","3",";">>), JStr(<<"M","A","T","C","H"," ","(","n",")"," ","R","E","T","U","R","N"," ","n",";">>),
               JStr(<<" ","M","A","T","C","H"," ","(","n",")"," ","R","E","T","U","R","N"," ","n",".","l","i","m","i","t"," ">>), JStr(<<"M","A","T","C","H"," ","(","n",")"," ","R","E","T","U","R","N"," ","n"," ","/","/"," ","a","l","l","\n">>)},
        l \in LimitValues,
        p \in {Absent, JBool(TRUE), JBool(FALSE)},
        drv \in {d \in DriverOutcomes : d.seq = AllSucceed}}

\* calls of Neo4jSchemaTool.execute: every parameter bag of the requests, every
\* subset of its queries failing
SchemaCalls ==
    {[self |-> self, params |-> a,
      drv |-> [main |-> "ok", plan |-> "ok", rows |-> n, seq |-> seq]] :
        self \in SchemaToolPool,
        a \in {x \in SchemaArguments : x.t = "map"},
        n \in 0..MaxRows,
        seq \in [1..MaxQueries -> {"ok", "fail"}]}

ExecuteCalls == GateCalls \cup LimitCalls \cup SchemaCalls

\* tool.execute(params) on a constructed tool
Execute(call) ==
    /\ op = "idle"
    /\ \E r \in {ToolExecute(call.self, call.params, call.drv)} :
        /\ response' = (IF r.ok THEN [ok |-> TRUE, value |-> r.value]
                        ELSE [ok |-> FALSE, exc |-> r.exc, msg |-> r.msg])
        /\ events' = r.events
    /\ dispatched' = None
    /\ op' = "execute"
    /\ request' = [self |-> call.self, params |-> call.params]
    /\ driver' = call.drv
    /\ UNCHANGED <<tools, listed, threads>>

NextQuery ==
    \/ \E call \in ExecuteCalls : Execute(call)
    \/ Complete

SpecQuery == Init /\ [][NextQuery]_vars

---------------------------------------------------------------------------
(* The transport's request threads: app.run(threaded=True) runs mcp_endpoint, and
   with it handle_request, in one thread per request, all on the one MCPServer
   that initialize_tools filled before the transport started *)

\* the registries initialize_tools leaves: the schema tool, then the query tool,
\* each with or without a connection
StartupRegistries ==
    {StoreTool(StoreTool(<<>>, schema), query) :
        schema \in SchemaToolPool, query \in QueryToolPool}

\* the requests the threads handle, each with the answers of its driver
ThreadCalls ==
    {[request |-> DictOf([method |-> JStr(M_tools_list), id |-> JInt(1)]), drv |-> NoDriver],
     [request |-> DictOf([method |-> JStr(M_server_info)]), drv |-> NoDriver],
     [request |-> DictOf([method |-> JStr(<<"r","e","s","o","u","r","c","e","s","/","l","i","s","t">>), id |-> JInt(0)]),
      drv |-> NoDriver],
     [request |-> RawText([ok |-> FALSE, exc |-> "JSONDecodeError", err |-> JSONDecodeErrorText]),
      drv |-> NoDriver]}
    \cup {[request |-> DictOf([method |-> JStr(M_tools_call), id |-> i,
                               params |-> DictOf([name |-> JStr(QueryToolName),
                                                  arguments |-> DictOf([cypher_query |-> JStr(q)])])]),
           drv |-> [NoDriver EXCEPT !.main = m, !.rows = 1]] :
            i \in {JInt(1), JStr(<<"r","e","q","-","1">>)}, q \in {Q_count, Q_set}, m \in {"ok", "fail"}}
    \cup {[request |-> DictOf([method |-> JStr(M_tools_call), id |-> JInt(1),
                               params |-> DictOf([name |-> JStr(SchemaToolName),
                                                  arguments |-> DictOf([schema_type |-> JStr(<<"n","o","d","e","s">>)])])]),
           drv |-> [NoDriver EXCEPT !.seq = FirstFail(k), !.rows = 1]] : k \in {0, 3}}

InitThreads ==
    /\ tools \in StartupRegistries
    /\ op = "idle"
    /\ request = None
    /\ driver = None
    /\ response = None
    /\ dispatched = None
    /\ events = <<>>
    /\ listed = None
    /\ threads = [t \in Threads |-> IdleThread]

\* a request some thread is handling, standing for a request kept in a field of
\* the server that every thread reads
ThreadRequest_shared(all, t) ==
    all[CHOOSE u \in Threads : all[u].pc = "received"].request

\* the request thread t handles: request_data is a local of its own call
ThreadRequest(all, t) == all[t].request

\* mcp_endpoint receives a request in thread t
Receive(t, call) ==
    /\ threads[t].pc = "idle"
    /\ threads' = [threads EXCEPT ![t] = [pc |-> "received", request |-> call.request,
                                          drv |-> call.drv, ret |-> None]]
    /\ UNCHANGED <<tools, op, request, driver, response, dispatched, events, listed>>

\* thread t runs handle_request on the shared server
Run(t) ==
    /\ threads[t].pc = "received"
    /\ \E r \in {handle_request(tools, ThreadRequest(threads, t), threads[t].drv)} :
        /\ threads' = [threads EXCEPT ![t].pc = "done", ![t].ret = r.ret]
        /\ tools' = tools_after(tools, r.dispatched)
    /\ UNCHANGED <<op, request, driver, response, dispatched, events, listed>>

\* thread t hands its result to the client and ends
Respond(t) ==
    /\ threads[t].pc = "done"
    /\ threads' = [threads EXCEPT ![t] = IdleThread]
    /\ UNCHANGED <<tools, op, request, driver, response, dispatched, events, listed>>

NextThreads ==
    \/ \E t \in Threads : \E call \in ThreadCalls : Receive(t, call)
    \/ \E t \in Threads : Run(t)
    \/ \E t \in Threads : Respond(t)

SpecThreads == InitThreads /\ [][NextThreads]_vars

---------------------------------------------------------------------------
(* Properties *)

HasEvent(kind) == \E i \in 1..Len(events) : events[i].e = kind

\* the query texts handed to session.run during the call
RunTexts == {events[i].text : i \in {j \in 1..Len(events) : events[j].e = "run"}}

\* the query texts handed to _validate_query during the call
ValidatedTexts == {events[i].text : i \in {j \in 1..Len(events) : events[j].e = "validate"}}

\* the call is a handle_request whose input is, or parses to, a dict
HandledDict ==
    /\ op = "handle_request"
    /\ \/ request.t = "map"
       \/ request.t = "text" /\ request.loads.ok /\ request.loads.value.t = "map"

\* that dict
RequestDict == IF request.t = "text" THEN request.loads.value ELSE request

\* the returned envelope is an error envelope
IsErrorEnvelope(envelope) ==
    /\ envelope # None
    /\ "error" \in DOMAIN envelope
    /\ "result" \notin DOMAIN envelope

IsResultEnvelope(envelope) ==
    /\ envelope # None
    /\ "result" \in DOMAIN envelope
    /\ "error" \notin DOMAIN envelope

\* some deny-listed keyword occurs in the normalized text
HasDangerous(clean) ==
    \E k \in 1..Len(dangerous_keywords) : Contains(clean, dangerous_keywords[k])

\* the normalized text starts with an allow-listed clause
StartsAllowed(clean) ==
    \E a \in 1..Len(allowed_starts) : StartsWith(clean, allowed_starts[a])

\* C1 as stated: a request dict without an id is answered with None, whatever
\* else is wrong with it (violated: a dict without method and id gets -32600)
C1_NoIdAlwaysNone ==
    (HandledDict /\ ~HasKey(RequestDict, "id")) => response = None

\* C1 amended: a request dict that has a method and no id is answered with None,
\* whether the method succeeds, fails or is unknown
C1_NotificationReturnsNone ==
    (HandledDict /\ HasKey(RequestDict, "method") /\ ~HasKey(RequestDict, "id"))
        => response = None

\* a notification whose tool call failed after the tool ran, answered with None
C1_Witness ==
    /\ HandledDict
    /\ ~HasKey(RequestDict, "id")
    /\ Get(RequestDict, "method", None) = JStr(M_tools_call)
    /\ HasEvent("execute")
    /\ dispatched # None
    /\ dispatched.error # None
    /\ response = None

\* C2: every envelope handle_request returns holds exactly one of the keys
\* result and error
C2_ExactlyOneOfResultError ==
    (op = "handle_request" /\ response # None)
        => (("result" \in DOMAIN response) # ("error" \in DOMAIN response))

\* an error envelope returned for a tool that ran and failed
C2_Witness ==
    /\ op = "handle_request"
    /\ HasEvent("execute")
    /\ IsErrorEnvelope(response)
    /\ "id" \in DOMAIN response

\* the request is a tools/call whose params name a tool
CallsNamedTool ==
    /\ HandledDict
    /\ Get(RequestDict, "method", None) = JStr(M_tools_call)
    /\ Get(RequestDict, "params", None).t = "map"
    /\ HasKey(Get(RequestDict, "params", None), "name")

CalledToolName == RequestDict.m["params"].m["name"].s

\* the request carries an id that is not null
HasRequestId == HandledDict /\ Get(RequestDict, "id", None) # None

\* C3: a tools/call naming an unregistered tool runs no tool's execute and
\* produces an error response, returned as an error envelope when the request has an id
C3_NoExecuteForUnregistered ==
    (CallsNamedTool /\ ~HasTool(tools, CalledToolName))
        => /\ ~HasEvent("execute")
           /\ dispatched # None
           /\ dispatched.error # None
           /\ dispatched.result = None
           /\ HasRequestId => IsErrorEnvelope(response)

\* an unregistered name called with arguments while another tool is registered
C3_Witness ==
    /\ CallsNamedTool
    /\ ~HasTool(tools, CalledToolName)
    /\ tools # <<>>
    /\ HasKey(RequestDict.m["params"], "arguments")
    /\ Get(RequestDict.m["params"], "arguments", None).t = "map"
    /\ HasKey(Get(RequestDict.m["params"], "arguments", None), "cypher_query")
    /\ IsErrorEnvelope(response)

\* the gate rejects text: a deny-listed keyword occurs in its normalized form, or
\* the normalized form does not start with an allow-listed clause
GateRejects(text) ==
    HasDangerous(CleanQuery(text)) \/ ~StartsAllowed(CleanQuery(text))

\* what the rejection of text is about: the first deny-listed keyword that occurs in
\* its normalized form, or else the allowed-start requirement
RejectionSubject(text) ==
    IF HasDangerous(CleanQuery(text))
    THEN dangerous_keywords[FirstDangerous(CleanQuery(text))]
    ELSE StartMessage

\* C9: a tools/call of neo4j_query with an id whose query the gate rejects returns
\* an error envelope with code -32603 whose data mentions the rejected keyword
C9_GateRejectionEnvelope ==
    (/\ CallsNamedTool
     /\ CalledToolName = QueryToolName
     /\ HasRequestId
     /\ \E text \in ValidatedTexts : GateRejects(text))
        => /\ IsErrorEnvelope(response)
           /\ response.error.code = -32603
           /\ "data" \in DOMAIN response.error
           /\ \A text \in ValidatedTexts :
                Contains(response.error.data, RejectionSubject(text))

\* MATCH (n) SET n.x = 1 answered with -32603 and a description that mentions SET
C9_Witness ==
    /\ CallsNamedTool
    /\ HasRequestId
    /\ ValidatedTexts = {Q_set}
    /\ IsErrorEnvelope(response)
    /\ response.error.code = -32603
    /\ Contains(response.error.data, <<"S","E","T">>)
    /\ ~Contains(response.error.data, <<"D","E","L","E","T","E">>)

\* C10: a request with an id whose method is none of the four supported methods is
\* answered with code -32601, a message containing the method name and the
\* request's id, and no handler runs
C10_MethodNotFound ==
    (/\ HandledDict
     /\ HasKey(RequestDict, "method")
     /\ RequestDict.m["method"] \notin
            {JStr(M_initialize), JStr(M_tools_list), JStr(M_tools_call), JStr(M_server_info)}
     /\ HasRequestId)
        => /\ IsErrorEnvelope(response)
           /\ response.error.code = -32601
           /\ Contains(response.error.message, RequestDict.m["method"].s)
           /\ "id" \in DOMAIN response
           /\ response.id = RequestDict.m["id"]
           /\ ~HasEvent("handler")

\* a method that differs from a supported one only in case, with a string id
C10_Witness ==
    /\ HandledDict
    /\ Get(RequestDict, "method", None) = JStr(<<"T","o","o","l","s","/","L","i","s","t">>)
    /\ Get(RequestDict, "id", None) = JStr(<<"r","e","q","-","1">>)
    /\ IsErrorEnvelope(response)
    /\ response.error.code = -32601
    /\ response.id = JStr(<<"r","e","q","-","1">>)

\* the call is a direct execute whose params carry a cypher_query string
ExecutedQuery ==
    /\ op = "execute"
    /\ HasKey(request.params, "cypher_query")
    /\ request.params.m["cypher_query"].t = "str"

CallerQuery == request.params.m["cypher_query"].s

\* execute failed with the gate's error: the ValueError of _validate_query, re-raised
GateError ==
    /\ ~response.ok
    /\ \/ response.msg = QueryFailedPrefix \o StartMessage
       \/ \E k \in 1..Len(dangerous_keywords) :
            response.msg = QueryFailedPrefix \o DangerousMessage(dangerous_keywords[k])

\* C4: a cypher_query whose normalized text contains a deny-listed keyword is
\* rejected with an error, and no session is opened and no query is sent to the driver
C4_DenyListedRejectedBeforeExecution ==
    (ExecutedQuery /\ HasDangerous(CleanQuery(CallerQuery)))
        => /\ ~response.ok
           /\ ~HasEvent("session_open")
           /\ RunTexts = {}

\* a keyword in the middle of a query given to a connected tool whose driver would
\* have answered: rejected by the gate, nothing run
C4_Witness ==
    /\ ExecutedQuery
    /\ CallerQuery = <<"M","A","T","C","H"," ","(","n",")"," ","R","E","T","U","R","N"," ","n",".","o","f","f","s","e","t">>
    /\ request.self.driver
    /\ driver.main = "ok"
    /\ GateError
    /\ events = << [e |-> "execute", name |-> QueryToolName, inst |-> request.self.inst],
                   [e |-> "validate", text |-> CallerQuery] >>

\* C6: a cypher_query whose normalized text does not start with an allow-listed
\* clause is rejected, also without any deny-listed keyword, and nothing is sent
\* to the driver
C6_DisallowedStartRejected ==
    (ExecutedQuery /\ ~StartsAllowed(CleanQuery(CallerQuery)))
        => /\ ~response.ok
           /\ RunTexts = {}
           /\ ~HasEvent("session_open")
           /\ ValidatedTexts # {} => GateError

\* a query with no deny-listed keyword that starts with SELECT, given to a
\* connected tool: rejected for its start
C6_Witness ==
    /\ ExecutedQuery
    /\ CallerQuery = <<"S","E","L","E","C","T"," ","1"," ","R","E","T","U","R","N"," ","1">>
    /\ ~HasDangerous(CleanQuery(CallerQuery))
    /\ request.self.driver
    /\ driver.main = "ok"
    /\ response = [ok |-> FALSE, exc |-> "ValueError", msg |-> QueryFailedPrefix \o StartMessage]
    /\ ValidatedTexts = {CallerQuery}

\* C7: the gate accepts every query that starts with an allow-listed clause and
\* contains no deny-listed keyword, RETURN 1 and PROFILE MATCH (n) RETURN n among
\* them, and rejects a query beginning with CREATE (n)
C7_ReadOnlyAccepted ==
    \A text \in (IF op = "execute" THEN ValidatedTexts ELSE {}) :
        /\ (StartsAllowed(Upper(JoinSplit(StripComments(text))))
            /\ ~HasDangerous(Upper(JoinSplit(StripComments(text))))) => ~GateError
        /\ StartsWith(text, <<"M","A","T","C","H"," ","(","n",")"," ","R","E","T","U","R","N">>) /\ ~HasDangerous(CleanQuery(text)) => ~GateError
        /\ text = <<"R","E","T","U","R","N"," ","1">> => ~GateError
        /\ text = <<"P","R","O","F","I","L","E"," ","M","A","T","C","H"," ","(","n",")"," ","R","E","T","U","R","N"," ","n">> => ~GateError
        /\ StartsWith(text, <<"C","R","E","A","T","E"," ","(","n",")">>) => GateError

\* PROFILE MATCH (n) RETURN n accepted, run and answered
C7_Witness ==
    /\ op = "execute"
    /\ ValidatedTexts = {<<"P","R","O","F","I","L","E"," ","M","A","T","C","H"," ","(","n",")"," ","R","E","T","U","R","N"," ","n">>}
    /\ response.ok
    /\ response.value.result_count = MaxRows
    /\ RunTexts = {<<"P","R","O","F","I","L","E"," ","M","A","T","C","H"," ","(","n",")"," ","R","E","T","U","R","N"," ","n"," ","L","I","M","I","T"," ","1","0","0">>}

\* C8 as stated: a query beginning with MATCH (n) DETACH DELETE n is rejected with
\* a message that names DETACH DELETE (violated: the message names DELETE, which
\* precedes DETACH DELETE in the keyword list)
C8_NamesDetachDelete ==
    \A text \in (IF op = "execute" THEN ValidatedTexts ELSE {}) :
        StartsWith(text, Q_detach)
            => GateError /\ Contains(response.msg, <<"D","E","T","A","C","H"," ","D","E","L","E","T","E">>)

\* C5 as stated: no query text handed to the driver contains a deny-listed keyword
\* outside a genuine Cypher comment (violated: the gate strips "/*" and "//" found
\* inside string literals, and joins the tokens a comment separates)
C5_NoDangerousTextReachesDriver ==
    \A text \in RunTexts : ~HasDangerous(CypherStatement(text))

---------------------------------------------------------------------------
(* Faults, listing and the registry *)

\* the request names a supported method, so that a handler runs
RunsHandler ==
    /\ HandledDict
    /\ HasKey(RequestDict, "method")
    /\ RequestDict.m["method"].s \in method_handlers

\* what the handler of the request returns or raises
HandlerOutcome ==
    RunHandler(tools, RequestDict.m["method"].s,
               ParamsOrEmpty(Get(RequestDict, "params", None)), driver)

\* value is an envelope: a dict with jsonrpc and exactly one of result and error
IsEnvelope(value) ==
    /\ "jsonrpc" \in DOMAIN value
    /\ ("result" \in DOMAIN value) # ("error" \in DOMAIN value)

\* C11: handle_request returns None or an envelope for every input, and a failure
\* raised inside a handler becomes an error response with code -32603 whose message
\* holds the method name and whose data is the failure's description; that response
\* is what a request with an id gets back
C11_NoFaultPropagates ==
    (op = "handle_request") =>
        /\ response = None \/ IsEnvelope(response)
        /\ (RunsHandler /\ ~HandlerOutcome.ok) =>
            /\ dispatched # None
            /\ dispatched.result = None
            /\ dispatched.error.code = -32603
            /\ Contains(dispatched.error.message, RequestDict.m["method"].s)
            /\ dispatched.error.data = HandlerOutcome.msg
            /\ dispatched.id = Get(RequestDict, "id", None)
            /\ HasRequestId => response = to_dict(dispatched)

\* a tool that ran and failed inside tools/call, answered with the -32603 envelope
C11_Witness ==
    /\ RunsHandler
    /\ HasEvent("execute")
    /\ ~HandlerOutcome.ok
    /\ HasRequestId
    /\ IsErrorEnvelope(response)
    /\ response.error.code = -32603


\* the request is a tools/list with an id, answered with a result envelope
ListAnswered ==
    /\ HandledDict
    /\ Get(RequestDict, "method", None) = JStr(M_tools_list)
    /\ HasRequestId
    /\ IsResultEnvelope(response)

\* the names of a tool's parameters that its definition marks required
MarkedRequired(tool) ==
    {tool.parameters[i].name :
        i \in {j \in 1..Len(tool.parameters) : tool.parameters[j].required}}

\* C12: the tools/list result holds one descriptor per registered tool, and the
\* required list of each descriptor holds exactly the names of the parameters its
\* tool marks required, each once
C12_ListMatchesRegistry ==
    ListAnswered =>
        /\ Len(response.result.tools) = Len(tools)
        /\ \A i \in 1..Len(tools) :
            LET descriptor == response.result.tools[i]
                required == descriptor.inputSchema.required
            IN /\ descriptor.name = tools[i].tool.name
               /\ {required[j] : j \in 1..Len(required)} = MarkedRequired(tools[i].tool)
               /\ Len(required) = Cardinality(MarkedRequired(tools[i].tool))

\* both tools registered, the query tool twice, and listed
C12_Witness ==
    /\ ListAnswered
    /\ Len(tools) = 2
    /\ tools[1].tool.cls = "Neo4jSchemaTool"
    /\ tools[2].tool.inst = 2
    /\ Len(response.result.tools) = 2
    /\ response.result.tools[1].inputSchema.required = <<"schema_type">>
    /\ response.result.tools[2].inputSchema.required = <<"cypher_query">>


\* the names a registry holds
RegistryNames(registry) == {registry[i].key : i \in 1..Len(registry)}

\* no name has two entries, and every entry is filed under its tool's name
UniqueNames(registry) ==
    /\ \A i, j \in 1..Len(registry) : registry[i].key = registry[j].key => i = j
    /\ \A i \in 1..Len(registry) : registry[i].tool.name = registry[i].key

\* the registry changed by registering some tool: that tool is now the one entry
\* of its name, and every other name keeps its instance
LatestWins ==
    (tools' # tools) =>
        \E tool \in ToolPool :
            /\ RegistryNames(tools') = RegistryNames(tools) \cup {tool.name}
            /\ LookupTool(tools', tool.name) = tool
            /\ \A name \in RegistryNames(tools) \ {tool.name} :
                LookupTool(tools', name) = LookupTool(tools, name)

\* the execute events of the call
ExecuteEvents == {i \in 1..Len(events) : events[i].e = "execute"}

\* what tools/list and tools/call show of the registry during a request: one
\* descriptor per name, and the instance executed is the one entry of its name
RequestsSeeOneInstance ==
    /\ ListAnswered =>
        \A name \in RegistryNames(tools) :
            Cardinality({i \in 1..Len(response.result.tools) :
                            response.result.tools[i].name = name}) = 1
    /\ (op = "handle_request") =>
        /\ Cardinality(ExecuteEvents) <= 1
        /\ \A i \in ExecuteEvents :
            /\ HasTool(tools, events[i].name)
            /\ events[i].inst = LookupTool(tools, events[i].name).inst

\* C13: under any sequence of registrations every name has exactly one entry, a
\* registration under a taken name replaces the instance, and tools/list and
\* tools/call see only the instance registered last
C13_UniqueLatestInstance ==
    /\ [](UniqueNames(tools) /\ RequestsSeeOneInstance)
    /\ [][LatestWins]_vars

\* the query tool registered twice, the second instance (without a connection)
\* being the one a tools/call reaches
C13_Witness ==
    /\ op = "handle_request"
    /\ Len(tools) = 2
    /\ ExecuteEvents # {}
    /\ \A i \in ExecuteEvents : events[i].name = QueryToolName /\ events[i].inst = 2
    /\ LookupTool(tools, QueryToolName) = QueryTool(2, FALSE)
    /\ tools[1].key = QueryToolName


\* C14: a tools/list answered after an earlier one, with no registration in
\* between and whatever other requests were handled in between, carries the
\* result the earlier one carried
C14_ListIdempotent ==
    [][(listed # None /\ ListAnswered') => response'.result = listed.result]_vars

\* a second tools/list being answered after a failed tool call, both tools registered
C14_Witness ==
    /\ ListAnswered
    /\ Len(tools) = 2
    /\ listed # None
    /\ listed.again
    /\ listed.result = response.result
    /\ Get(RequestDict, "id", None) = JStr(<<"r","e","q","-","1">>)
    /\ Get(RequestDict, "params", Absent) = JList(<<JInt(1)>>)


\* the request is an initialize with an id, answered with a result envelope
InitializeAnswered ==
    /\ HandledDict
    /\ Get(RequestDict, "method", None) = JStr(M_initialize)
    /\ HasRequestId
    /\ IsResultEnvelope(response)

---------------------------------------------------------------------------
(* Request threads *)

\* what thread t's request returns when it is handled alone on the same registry
AloneResult(t) == handle_request(tools, threads[t].request, threads[t].drv).ret

---------------------------------------------------------------------------
(* Sessions and limits *)

\* the number of sessions open after the first n events of the call
OpenSessions(n) ==
    Cardinality({i \in 1..n : events[i].e = "session_open"})
    - Cardinality({i \in 1..n : events[i].e = "session_close"})

\* every query is run in a session opened for it alone and closed right after it
SessionsScoped ==
    /\ \A n \in 1..Len(events) :
        /\ OpenSessions(n) \in {0, 1}
        /\ (events[n].e = "run") =>
            /\ n > 1 /\ events[n - 1].e = "session_open"
            /\ n < Len(events) /\ events[n + 1].e = "session_close"
        /\ (events[n].e = "session_open") => n < Len(events) /\ events[n + 1].e = "run"
    /\ OpenSessions(Len(events)) = 0

\* the connection of every registered tool is as it was before the step
ConnectionsKept ==
    /\ Len(tools') = Len(tools)
    /\ \A i \in 1..Len(tools) : tools'[i].tool.driver = tools[i].tool.driver

\* C17: when a call of either tool has returned or raised, every session it opened
\* has been closed, each query having had a session of its own, on the success path
\* and on the failure paths alike; and the call leaves each tool's connection as it was
C17_SessionsReleased ==
    /\ []((op # "idle") => SessionsScoped)
    /\ [][(op' # "idle") => ConnectionsKept]_vars

\* a schema call whose three strategies all failed in the driver: three sessions
\* opened and closed, and the call raised
C17_Witness ==
    /\ op = "handle_request"
    /\ Cardinality({n \in 1..Len(events) : events[n].e = "session_open"}) = 3
    /\ Cardinality({n \in 1..Len(events) : events[n].e = "session_close"}) = 3
    /\ dispatched # None
    /\ dispatched.error # None
    /\ Contains(dispatched.error.data, DriverErrorText)


\* the limit of a direct execute: the one supplied, or the default
CallerLimit == Get(request.params, "limit", JInt(100))

\* C18 as stated: a call whose limit is an integer outside 1..1000 fails with a
\* caller-input error and runs no query (violated: limit = 0 is falsy, passes the
\* range check unexamined, and the query is run without a cap)
C18_LimitOutOfRangeRejected ==
    (/\ op = "execute"
     /\ request.self.cls = "Neo4jQueryTool"
     /\ request.params.t = "map"
     /\ CallerLimit.t = "int"
     /\ (CallerLimit.i < 1 \/ CallerLimit.i > 1000))
        => /\ ~response.ok
           /\ response.exc = "ValueError"
           /\ RunTexts = {}


\* C19 as stated: a successful call returns no more rows than its effective limit
\* (the supplied limit, or 100), hence no more than 1000 (violated: the cap is
\* appended only when the text holds no "LIMIT" substring and the limit is truthy)
C19_RowsWithinEffectiveLimit ==
    (/\ ExecutedQuery
     /\ CallerLimit.t = "int"
     /\ response.ok)
        => /\ Len(response.value.results) <= CallerLimit.i
           /\ Len(response.value.results) <= 1000


\* the text of the first session.run of the call: the main query
MainRunText == events[CHOOSE i \in 1..Len(events) :
                        /\ events[i].e = "run"
                        /\ \A j \in 1..(i - 1) : events[j].e # "run"].text

\* the caller's query, as given, stripped, or stripped of its final semicolon
QueryAsGiven == {CallerQuery, Strip(CallerQuery)}

QueryBeforeCap == QueryAsGiven \cup {RStripSemicolon(Strip(CallerQuery))}

\* C20 as stated: when the caller's text has no result cap of its own and a limit
\* was supplied, the main query is sent as the caller's query followed by
\* " LIMIT <limit>"; when the text has its own cap it is sent unchanged (violated:
\* a text holding the letters LIMIT anywhere, or a limit of 0, is sent uncapped)
C20_CapAppendedWhenMissing ==
    (/\ ExecutedQuery
     /\ RunTexts # {}
     /\ HasKey(request.params, "limit")
     /\ CallerLimit.t = "int")
        => IF StatementCap(CallerQuery).some
           THEN MainRunText \in QueryAsGiven
           ELSE \E q \in QueryBeforeCap :
                    MainRunText = q \o <<" ","L","I","M","I","T"," ">> \o IntToStr(CallerLimit.i)


\* the call is a direct execute of the schema tool with a dict of parameters
SchemaCall ==
    /\ op = "execute"
    /\ request.self.cls = "Neo4jSchemaTool"
    /\ request.params.t = "map"

SchemaType == Get(request.params, "schema_type", None)

\* the texts of the session.run calls of the call, in the order they were made
RunSeq ==
    Bind(SelectSeq(events, LAMBDA ev : ev.e = "run"), LAMBDA runs :
        [i \in 1..Len(runs) |-> runs[i].text])

\* the three strategies of the call's schema_type, in the order optimized,
\* portable, zero-filled, with the columns they return and the field they fill
Strategies ==
    CASE SchemaType = JStr(<<"n","o","d","e","s">>) ->
            [queries |-> <<nodes_apoc_query, nodes_fallback_query, nodes_simple_query>>,
             columns |-> {<<"l","a","b","e","l">>, <<"c","o","u","n","t">>}, field |-> "postgresql_entities"]
      [] SchemaType = JStr(<<"r","e","l","a","t","i","o","n","s","h","i","p","s">>) ->
            [queries |-> <<relationships_apoc_query, relationships_fallback_query,
                           relationships_simple_query>>,
             columns |-> {<<"r","e","l","a","t","i","o","n","s","h","i","p","T","y","p","e">>, <<"c","o","u","n","t">>},
             field |-> "postgresql_relationships"]
      [] OTHER ->
            [queries |-> <<properties_apoc_query, properties_fallback_query,
                           properties_simple_query>>,
             columns |-> {<<"l","a","b","e","l">>, <<"p","r","o","p","e","r","t","i","e","s">>},
             field |-> "postgresql_entity_properties"]

\* the call is a schema tool call that goes through the three strategies
ThreeTierCall(types) ==
    /\ SchemaCall
    /\ SchemaType \in {JStr(ty) : ty \in types}
    /\ ~Truthy(Get(request.params, "node_label", None))

\* the strategies that succeed for this call, by index
Succeeding == {k \in 1..3 : driver.seq[k] = "ok"}

FirstSucceeding == CHOOSE k \in Succeeding : \A j \in Succeeding : k <= j

\* C21: for nodes and relationships the strategies are attempted in the order
\* optimized, portable, zero-filled, a later one only after every earlier one
\* failed, and the result is that of the first strategy that succeeded
C21_StrategiesInOrder ==
    (ThreeTierCall({<<"n","o","d","e","s">>, <<"r","e","l","a","t","i","o","n","s","h","i","p","s">>}) /\ request.self.driver)
        => /\ Len(RunSeq) \in 1..3
           /\ \A i \in 1..Len(RunSeq) :
                /\ RunSeq[i] = Strategies.queries[i]
                /\ \A j \in 1..(i - 1) : driver.seq[j] = "fail"
                /\ (driver.seq[i] = "ok") => (Len(RunSeq) = i)
           /\ (Succeeding # {}) =>
                /\ response.ok
                /\ Len(RunSeq) = FirstSucceeding
                /\ response.value[Strategies.field]
                     = SchemaRecords(Strategies.queries[FirstSucceeding],
                                     Strategies.columns, driver.rows)

\* a relationships call whose optimized and portable strategies failed returned
\* the zero-filled listing
C21_Witness ==
    /\ ThreeTierCall({<<"r","e","l","a","t","i","o","n","s","h","i","p","s">>})
    /\ request.self.driver
    /\ driver.seq = <<"fail", "fail", "ok", "ok">>
    /\ driver.rows = MaxRows
    /\ Len(RunSeq) = 3
    /\ response.ok
    /\ response.value.postgresql_relationships[MaxRows][<<"c","o","u","n","t">>] = JInt(0)


\* C22 as stated: a nodes, relationships or label-less properties call never
\* fails, whatever strategies fail (violated: the zero-filled query is run outside
\* any try block, so its failure is raised to the caller)
C22_FallbackNeverFails ==
    ThreeTierCall({<<"n","o","d","e","s">>, <<"r","e","l","a","t","i","o","n","s","h","i","p","s">>, <<"p","r","o","p","e","r","t","i","e","s">>}) => response.ok


\* the fields of the overview, in the order of the sub-queries that fill them
OverviewFields ==
    << "total_postgresql_entities", "total_relationships", "postgresql_entity_types",
       "relationship_types" >>

\* the i-th sub-query of the call failed: no connection, or the driver raised
SubQueryFailed(i) == ~request.self.driver \/ driver.seq[i] = "fail"

\* C23 as stated: an overview call succeeds whatever sub-queries fail; a failed
\* field holds a null or empty placeholder, a field whose sub-query succeeded is
\* populated, and all four sub-queries are attempted (violated: relationship_types
\* is read from a column the store never returns, so it is null on success too)
C23_OverviewPartialResults ==
    (SchemaCall /\ SchemaType = JStr(<<"o","v","e","r","v","i","e","w">>))
        => /\ response.ok
           /\ request.self.driver =>
                RunSeq = [i \in 1..4 |-> overview_queries[i].query]
           /\ \A i \in 1..4 :
                IF SubQueryFailed(i)
                THEN response.value.overview[OverviewFields[i]] \in {None, JList(<<>>)}
                ELSE response.value.overview[OverviewFields[i]] # None


SampleFields == << "sample_postgresql_entities", "sample_postgresql_relationships" >>

\* the queries of the call's sample_data, for the limit it carries
SampleQueries == sample_queries(Get(request.params, "limit", JInt(100)))

\* C24: a sample_data call never fails because of a sub-query; a failed query
\* leaves an empty list in its field while the other field carries the rows of
\* its own query, and both queries are attempted
C24_SampleQueriesIndependent ==
    (SchemaCall /\ SchemaType = JStr(<<"s","a","m","p","l","e","_","d","a","t","a">>))
        => /\ response.ok
           /\ request.self.driver =>
                RunSeq = [i \in 1..2 |-> SampleQueries[i].query]
           /\ \A i \in 1..2 :
                response.value[SampleFields[i]] =
                    IF SubQueryFailed(i) THEN <<>>
                    ELSE SchemaRecords(SampleQueries[i].query, SampleQueries[i].columns,
                                       driver.rows)

\* the entity query failed and the relationships were still returned
C24_Witness ==
    /\ SchemaCall
    /\ SchemaType = JStr(<<"s","a","m","p","l","e","_","d","a","t","a">>)
    /\ request.self.driver
    /\ driver.seq[1] = "fail" /\ driver.seq[2] = "ok"
    /\ driver.rows = MaxRows
    /\ response.ok
    /\ response.value.sample_postgresql_entities = <<>>
    /\ Len(response.value.sample_postgresql_relationships) = MaxRows


\* the caller asked for the query plan
PlanAsked == Truthy(Get(request.params, "include_query_plan", JBool(FALSE)))

\* the store answered the main query of the call
MainSucceeded == StoreAnswer(MainRunText, driver.main, driver.rows).ok

\* C25: the explain variant is issued only after the main query succeeded, and
\* only when include_query_plan is set; when it fails, the call still succeeds
\* with the rows and result count of the main query and a soft error field
C25_PlanFailureNonFatal ==
    (ExecutedQuery /\ RunTexts # {})
        => /\ Len(RunSeq) <= 2
           /\ (Len(RunSeq) = 2) <=> (PlanAsked /\ MainSucceeded)
           /\ (Len(RunSeq) = 2) => (RunSeq[2] = ExplainPrefix \o Strip(CallerQuery))
           /\ (PlanAsked /\ MainSucceeded /\ driver.plan = "fail") =>
                /\ response.ok
                /\ response.value.results
                     = Records(StoreAnswer(MainRunText, driver.main, driver.rows).n)
                /\ response.value.result_count = Len(response.value.results)
                /\ "query_plan_error" \in DOMAIN response.value
                /\ response.value.query_plan_error = QueryFailedPrefix \o DriverErrorText
                /\ "query_plan" \notin DOMAIN response.value

\* the plan was asked for, the main query returned rows and the explain variant failed
C25_Witness ==
    /\ ExecutedQuery
    /\ PlanAsked
    /\ driver.main = "ok" /\ driver.plan = "fail" /\ driver.rows = MaxRows
    /\ Len(RunSeq) = 2
    /\ response.ok
    /\ Len(response.value.results) = MaxRows
    /\ "query_plan_error" \in DOMAIN response.value


\* a label the tool could have validated: a non-empty string of letters, digits
\* and underscores
ValidLabel(v) ==
    /\ v.t = "str"
    /\ v.s # <<>>
    /\ \A i \in 1..Len(v.s) :
        \/ v.s[i] = "_"
        \/ \E k \in 1..26 : v.s[i] \in {LowerLetters[k], UpperLetters[k]}
        \/ \E k \in 1..10 : v.s[i] = Digits[k]

\* a limit the tool could have validated: a positive integer
ValidSampleLimit(v) == v.t = "int" /\ v.i >= 1

\* the statements of the tool that hold nothing of the caller's beyond a valid
\* label or a valid limit
FixedStatements ==
    {overview_queries[i].query : i \in 1..4}
    \cup {nodes_apoc_query, nodes_fallback_query, nodes_simple_query,
          relationships_apoc_query, relationships_fallback_query, relationships_simple_query,
          properties_apoc_query, properties_fallback_query, properties_simple_query}
    \cup (IF ValidLabel(Get(request.params, "node_label", None))
          THEN {LabelQuery(Get(request.params, "node_label", None))} ELSE {})
    \cup (IF ValidSampleLimit(Get(request.params, "limit", JInt(100)))
          THEN {SampleQueries[i].query : i \in 1..2} ELSE {})

\* C26 as stated: every statement a schema tool call sends to the driver is one of
\* the tool's own, holding nothing of the caller's beyond a validated label or a
\* validated positive integer (violated: node_label and limit are formatted into
\* the statement as they come)
C26_NoCallerTextExecuted ==
    SchemaCall => \A i \in 1..Len(RunSeq) : RunSeq[i] \in FixedStatements


\* a tools/call request with an id whose params name a tool that is not registered
NotFoundCall ==
    /\ CallsNamedTool
    /\ HasRequestId
    /\ ~HasTool(tools, CalledToolName)

\* C27 as stated: the message of the error envelope states that the tool was not
\* found (violated: error.message is "Error executing tools/call"; the text about
\* the tool is in error.data)
C27_NotFoundInMessage ==
    NotFoundCall
        => /\ IsErrorEnvelope(response)
           /\ Contains(Lower(response.error.message), <<"n","o","t"," ","f","o","u","n","d">>)

\* C27, amended: the answer is an error envelope with code -32603 and the
\* request's id, whose message is "Error executing tools/call" and whose data is
\* "Tool not found: <name>"; no tool is executed
C27_NotFoundInData ==
    NotFoundCall
        => /\ IsErrorEnvelope(response)
           /\ response.error.code = -32603
           /\ response.error.message = ErrorExecutingPrefix \o M_tools_call
           /\ response.error.data = ToolNotFoundPrefix \o CalledToolName
           /\ response.id = Get(RequestDict, "id", None)
           /\ ExecuteEvents = {}

\* nonexistent_tool was called on a server that has tools registered
C27_Witness ==
    /\ NotFoundCall
    /\ tools # <<>>
    /\ CalledToolName = <<"n","o","n","e","x","i","s","t","e","n","t","_","t","o","o","l">>
    /\ response.error.data = <<"T","o","o","l"," ","n","o","t"," ","f","o","u","n","d",":"," ","n","o","n","e","x","i","s","t","e","n","t","_","t","o","o","l">>


\* a tools/call request with an id whose params, or the empty dict that stands in
\* for missing params, hold no name
NamelessCall ==
    /\ HandledDict
    /\ Get(RequestDict, "method", None) = JStr(M_tools_call)
    /\ HasRequestId
    /\ ~NameInParams(ParamsOrEmpty(Get(RequestDict, "params", None)))

\* C28: a tools/call with an id and no params.name is answered with an error
\* envelope of code -32603 whose data describes the missing parameter, and no
\* tool is executed
C28_MissingNameInternalError ==
    NamelessCall
        => /\ IsErrorEnvelope(response)
           /\ response.error.code = -32603
           /\ "data" \in DOMAIN response.error
           /\ response.error.data = <<"M","i","s","s","i","n","g"," ","r","e","q","u","i","r","e","d"," ","p","a","r","a","m","e","t","e","r",":"," ","n","a","m","e">>
           /\ response.id = Get(RequestDict, "id", None)
           /\ ExecuteEvents = {}

\* a call that carries arguments and no name reached a server with tools registered
C28_Witness ==
    /\ NamelessCall
    /\ tools # <<>>
    /\ Get(RequestDict, "params", None).t = "map"
    /\ HasKey(Get(RequestDict, "params", None), "arguments")
    /\ response.error.code = -32603


\* the request is a mapping without a method key
MethodlessRequest == HandledDict /\ ~HasKey(RequestDict, "method")

\* C29: a mapping without the method field is answered with an Invalid Request
\* error envelope, code -32600, whose data names the missing field, and nothing
\* is dispatched
C29_MissingMethodInvalidRequest ==
    MethodlessRequest
        => /\ IsErrorEnvelope(response)
           /\ response.error.code = -32600
           /\ response.error.message = <<"I","n","v","a","l","i","d"," ","R","e","q","u","e","s","t">>
           /\ "data" \in DOMAIN response.error
           /\ Contains(response.error.data, <<"m","e","t","h","o","d">>)
           /\ dispatched = None
           /\ ~HasEvent("handler")

\* a mapping with an id and no method was answered
C29_Witness ==
    /\ MethodlessRequest
    /\ HasRequestId
    /\ response.error.code = -32600
    /\ response.error.data = <<"M","i","s","s","i","n","g"," ","f","i","e","l","d",":"," ","'","m","e","t","h","o","d","'">>


\* the request is raw text that json.loads could not deserialize
UndeserializableText ==
    /\ op = "handle_request"
    /\ request.t = "text"
    /\ ~request.loads.ok

\* C30 as stated: raw text that cannot be deserialized is answered with a Parse
\* Error envelope, code -32700, without an id, and nothing is dispatched
\* (violated: only JSONDecodeError is answered so; text json.loads gives up on
\* with another exception is answered with -32603)
C30_UndeserializableParseError ==
    UndeserializableText
        => /\ IsErrorEnvelope(response)
           /\ response.error.code = -32700
           /\ "id" \notin DOMAIN response
           /\ dispatched = None
           /\ ~HasEvent("handler")


---------------------------------------------------------------------------
(* Ids, codes and the order of checks *)

\* C31: every envelope returned for a request that has a method and a non-null id
\* carries that id, whether the method succeeded, was unknown or failed in its
\* handler; and an envelope carries an id only when the request had a non-null id
C31_EnvelopeCarriesRequestId ==
    (op = "handle_request") =>
        /\ (HandledDict /\ HasKey(RequestDict, "method") /\ HasRequestId)
            => /\ response # None
               /\ IsEnvelope(response)
               /\ "id" \in DOMAIN response
               /\ response.id = RequestDict.m["id"]
        /\ (response # None /\ "id" \in DOMAIN response)
            => /\ HasRequestId
               /\ response.id = RequestDict.m["id"]

\* a handler failed for a request whose id is the empty string, and the error
\* envelope carries that id
C31_Witness ==
    /\ RunsHandler
    /\ ~HandlerOutcome.ok
    /\ Get(RequestDict, "id", None) = JStr(<<>>)
    /\ IsErrorEnvelope(response)
    /\ response.error.code = -32603
    /\ "id" \in DOMAIN response
    /\ response.id = JStr(<<>>)


\* the codes an error envelope may carry
ErrorCodes == {-32700, -32600, -32601, -32603}

\* C32: every error envelope handle_request returns has a code among -32700,
\* -32600, -32601 and -32603, and a failure of the caller's input or of a tool's
\* execution, raised while a handler runs, is reported with -32603
C32_ErrorCodesClosed ==
    (op = "handle_request") =>
        /\ IsErrorEnvelope(response) => response.error.code \in ErrorCodes
        /\ (RunsHandler /\ ~HandlerOutcome.ok /\ HasRequestId)
            => /\ IsErrorEnvelope(response)
               /\ response.error.code = -32603

\* a tools/call whose query the gate rejected before anything reached the store,
\* answered with -32603
C32_Witness ==
    /\ RunsHandler
    /\ HasRequestId
    /\ ~HandlerOutcome.ok
    /\ HasEvent("validate")
    /\ ~HasEvent("session_open")
    /\ IsErrorEnvelope(response)
    /\ response.error.code = -32603


\* the params the initialize handler is given
InitializeGiven == ParamsOrEmpty(Get(RequestDict, "params", None))

\* C33: the result of initialize carries the protocol version the caller asked
\* for, or 2024-11-05 when the params name none, and a capabilities object that
\* lists tools and neither resources nor prompts
C33_InitializeEchoesVersion ==
    InitializeAnswered
        => /\ InitializeGiven.t = "map"
           /\ response.result.protocolVersion
                  = Get(InitializeGiven, "protocolVersion", JStr(DefaultProtocolVersion))
           /\ HasKey(InitializeGiven, "protocolVersion")
                  => response.result.protocolVersion = InitializeGiven.m["protocolVersion"]
           /\ ~HasKey(InitializeGiven, "protocolVersion")
                  => response.result.protocolVersion = JStr(<<"2","0","2","4","-","1","1","-","0","5">>)
           /\ "tools" \in DOMAIN response.result.capabilities
           /\ "resources" \notin DOMAIN response.result.capabilities
           /\ "prompts" \notin DOMAIN response.result.capabilities

\* an initialize that asked for a version other than the default and got it back
C33_Witness ==
    /\ InitializeAnswered
    /\ HasKey(InitializeGiven, "protocolVersion")
    /\ response.result.protocolVersion = JStr(<<"2","0","2","5","-","0","3","-","2","6">>)
    /\ DOMAIN response.result.capabilities = {"tools"}


\* C34: within one tool call no statement is sent to the driver twice, every
\* statement is run in a session of its own, and a query tool whose main query
\* fails sends nothing further and reports the failure as the error of the call
C34_NoRetries ==
    (op = "execute") =>
        /\ \A i \in 1..Len(RunSeq) : \A j \in 1..Len(RunSeq) :
               (i # j) => (RunSeq[i] # RunSeq[j])
        /\ Len(SelectSeq(events, LAMBDA ev : ev.e = "session_open")) = Len(RunSeq)
        /\ (ExecutedQuery /\ RunTexts # {} /\ ~MainSucceeded) =>
               /\ Len(RunSeq) = 1
               /\ ~response.ok
               /\ Contains(response.msg, DriverErrorText)

\* an overview whose first two sub-queries failed went on to the other two, four
\* statements in all
C34_Witness ==
    /\ SchemaCall
    /\ SchemaType = JStr(<<"o","v","e","r","v","i","e","w">>)
    /\ request.self.driver
    /\ driver.seq[1] = "fail" /\ driver.seq[2] = "fail"
    /\ Len(RunSeq) = 4
    /\ response.ok


\* the call went to a tool whose _connect failed when the tool was constructed
DisconnectedCall == op = "execute" /\ ~request.self.driver

\* C35: a call of a tool that was constructed without a connection opens no
\* session and sends nothing to the driver, whatever the driver would answer, and
\* a query that the gate of the query tool let through fails with the
\* not-connected error
C35_NoConnectionPerCall ==
    DisconnectedCall
        => /\ ~HasEvent("session_open")
           /\ RunTexts = {}
           /\ (ExecutedQuery /\ HasEvent("validate") /\ ValidateQuery(Strip(CallerQuery)).ok)
                => /\ ~response.ok
                   /\ response.msg = QueryFailedPrefix \o NotConnectedMessage

\* an allowed query given to the tool without a connection, the driver ready to
\* answer it, failed with the not-connected error
C35_Witness ==
    /\ DisconnectedCall
    /\ ExecutedQuery
    /\ HasEvent("validate")
    /\ ValidateQuery(Strip(CallerQuery)).ok
    /\ driver.main = "ok"
    /\ ~response.ok
    /\ Contains(response.msg, <<"N","o","t"," ","c","o","n","n","e","c","t","e","d"," ","t","o"," ","N","e","o","4","j"," ","d","a","t","a","b","a","s","e">>)
    /\ ~HasEvent("run")


\* the request is a tools/call notification: a mapping with that method and an
\* id that is absent or null
ToolsCallNotification ==
    /\ HandledDict
    /\ Get(RequestDict, "method", None) = JStr(M_tools_call)
    /\ ~HasRequestId

\* the notification names a registered tool and carries arguments in a mapping
NotifiesRegisteredTool ==
    /\ ToolsCallNotification
    /\ CallsNamedTool
    /\ HasTool(tools, CalledToolName)
    /\ Get(Get(RequestDict, "params", None), "arguments", EmptyMap).t = "map"

\* C36: a tools/call notification runs the handler as a call with an id does: the
\* steps taken are those of the handler on the same params, the named tool's
\* execute is invoked exactly once, the response is built, and only the return
\* value of handle_request is None
C36_NotificationStillComputes ==
    ToolsCallNotification
        => /\ response = None
           /\ events = << [e |-> "handler", method |-> M_tools_call] >> \o HandlerOutcome.events
           /\ dispatched # None
           /\ HandlerOutcome.ok => dispatched.result = HandlerOutcome.value
           /\ ~HandlerOutcome.ok => dispatched.error.data = HandlerOutcome.msg
           /\ NotifiesRegisteredTool
                => /\ Cardinality(ExecuteEvents) = 1
                   /\ events[2].e = "execute"
                   /\ events[2].name = CalledToolName

\* a notification whose query reached the driver and returned rows nobody was sent
C36_Witness ==
    /\ NotifiesRegisteredTool
    /\ HasEvent("run")
    /\ HandlerOutcome.ok
    /\ dispatched.result = HandlerOutcome.value
    /\ response = None


\* the first record the store returns for the i-th overview query
OverviewRecord(i) ==
    SchemaRecords(overview_queries[i].query, overview_queries[i].columns, driver.rows)[1]

\* C37 as stated: in an overview, when the labels query succeeds with a row,
\* postgresql_entity_types is the list the store returned and entity_type_count
\* its length, and when the relationship-types query succeeds with a row,
\* relationship_types is the list the store returned and relationship_type_count
\* its length (violated: the relationship types are looked up under the column
\* name relationship, the store returns them under types, and the field is null
\* with a count of 0)
C37_OverviewReportsSubQueryValues ==
    (/\ SchemaCall
     /\ SchemaType = JStr(<<"o","v","e","r","v","i","e","w">>)
     /\ request.self.driver
     /\ driver.rows >= 1)
        => /\ (driver.seq[3] = "ok") =>
                /\ response.value.overview.postgresql_entity_types
                       = OverviewRecord(3)[<<"l","a","b","e","l","s">>]
                /\ response.value.overview.entity_type_count
                       = Len(OverviewRecord(3)[<<"l","a","b","e","l","s">>].l)
           /\ (driver.seq[4] = "ok") =>
                /\ response.value.overview.relationship_types
                       = OverviewRecord(4)[<<"t","y","p","e","s">>]
                /\ response.value.overview.relationship_type_count
                       = Len(OverviewRecord(4)[<<"t","y","p","e","s">>].l)


\* a neo4j_query call that returned a payload
QuerySucceeded ==
    /\ ExecutedQuery
    /\ request.self.cls = "Neo4jQueryTool"
    /\ response.ok

\* C38: a successful neo4j_query payload holds the caller's query, trimmed and
\* without the cap the tool appended, the rows the store returned, a result_count
\* equal to the number of those rows, and the static guidance
C38_QueryPayloadShape ==
    QuerySucceeded
        => /\ response.value.query = Strip(CallerQuery)
           /\ (MainRunText # Strip(CallerQuery)) => (response.value.query # MainRunText)
           /\ response.value.results
                  = Records(StoreAnswer(MainRunText, driver.main, driver.rows).n)
           /\ response.value.result_count = Len(response.value.results)
           /\ response.value.guidance = QueryGuidance

\* a query given with surrounding blanks was sent with a cap appended, returned
\* rows, and was echoed trimmed and without the cap
C38_Witness ==
    /\ QuerySucceeded
    /\ CallerQuery # Strip(CallerQuery)
    /\ MainRunText # Strip(CallerQuery)
    /\ Contains(MainRunText, <<" ","L","I","M","I","T"," ">>)
    /\ response.value.query = Strip(CallerQuery)
    /\ response.value.result_count >= 1
    /\ response.value.result_count = Len(response.value.results)


\* a call of Neo4jQueryTool.execute with a dict of params whose cypher_query, when
\* given, is a string
QueryCall ==
    /\ op = "execute"
    /\ request.self.cls = "Neo4jQueryTool"
    /\ request.params.t = "map"
    /\ Get(request.params, "cypher_query", JStr(<<>>)).t = "str"

\* the query execute works with: the caller's text, stripped, empty when missing
TrimmedQuery == Strip(Get(request.params, "cypher_query", JStr(<<>>)).s)

\* the limit fails the range check of execute
LimitRejected ==
    /\ Truthy(CallerLimit)
    /\ \/ ~IsInstanceInt(CallerLimit)
       \/ IntValue(CallerLimit) <= 0
       \/ IntValue(CallerLimit) > 1000

\* the position of the first event of a kind, 0 when there is none
FirstEvent(kind) ==
    IF HasEvent(kind)
    THEN CHOOSE i \in 1..Len(events) :
            /\ events[i].e = kind
            /\ \A j \in 1..(i - 1) : events[j].e # kind
    ELSE 0

\* C39: execute checks the query for emptiness, then the limit, then the gate,
\* and only then the connection: an empty query is rejected as such whatever the
\* limit, an invalid limit is rejected before the gate sees the query, a query the
\* gate refuses is refused as such by a tool without a connection too, and the
\* gate is consulted before any session is opened
C39_CheckOrder ==
    QueryCall
        => /\ (TrimmedQuery = <<>>)
                => /\ ~response.ok
                   /\ response.msg = QueryRequiredMessage
                   /\ ~HasEvent("validate")
                   /\ ~HasEvent("session_open")
           /\ (TrimmedQuery # <<>> /\ LimitRejected)
                => /\ ~response.ok
                   /\ response.msg = LimitMessage
                   /\ ~HasEvent("validate")
                   /\ ~HasEvent("session_open")
           /\ (TrimmedQuery # <<>> /\ ~LimitRejected)
                => /\ HasEvent("validate")
                   /\ ~ValidateQuery(TrimmedQuery).ok
                        => /\ GateError
                           /\ ~HasEvent("session_open")
                   /\ HasEvent("session_open")
                        => FirstEvent("validate") < FirstEvent("session_open")

\* a deny-listed query given to the tool without a connection was refused by the
\* gate, not for the missing connection
C39_Witness ==
    /\ QueryCall
    /\ ~request.self.driver
    /\ HasDangerous(CleanQuery(TrimmedQuery))
    /\ GateError
    /\ ~Contains(response.msg, <<"N","o","t"," ","c","o","n","n","e","c","t","e","d">>)
    /\ HasEvent("validate")


\* the request dict without its id key
WithoutId(d) == JMap([k \in DOMAIN d.m \ {"id"} |-> d.m[k]])

\* the request carries an id key whose value is null
HasNullId == HandledDict /\ HasKey(RequestDict, "id") /\ RequestDict.m["id"] = None

\* the request carries a method and an id that is 0 or the empty string
HasFalsyId ==
    /\ HandledDict
    /\ HasKey(RequestDict, "method")
    /\ Get(RequestDict, "id", None) \in {JInt(0), JStr(<<>>)}

\* C40: a request whose id is null gets what the same request without the id key
\* gets, which is None when it names a method; a request whose id is 0 or the
\* empty string is answered with an envelope that carries that id
C40_NullIdIsNotification ==
    /\ HasNullId =>
        /\ response = handle_parsed(tools, WithoutId(RequestDict), driver).ret
        /\ dispatched = handle_parsed(tools, WithoutId(RequestDict), driver).dispatched
        /\ events = handle_parsed(tools, WithoutId(RequestDict), driver).events
        /\ HasKey(RequestDict, "method") => response = None
    /\ HasFalsyId =>
        /\ response # None
        /\ IsEnvelope(response)
        /\ "id" \in DOMAIN response
        /\ response.id = RequestDict.m["id"]
        /\ dispatched.id = RequestDict.m["id"]

\* a tools/list with id 0 was answered with a result envelope carrying id 0
C40_Witness ==
    /\ HasFalsyId
    /\ RequestDict.m["method"] = JStr(M_tools_list)
    /\ RequestDict.m["id"] = JInt(0)
    /\ IsResultEnvelope(response)
    /\ response.id = JInt(0)

===========================================================================
